---- MODULE Spec2Model ----
(***************************************************************************)
(* State-machine model of the columnar database server: the Catalog        *)
(* (Metastore), the request handlers of the Server, the QueryEngine        *)
(* dispatcher, and the Planner / Executor steps a worker task runs for one *)
(* query.  One action is one holding of the Catalog RwLock together with   *)
(* the task-local computation that follows it up to the next acquisition.  *)
(***************************************************************************)
EXTENDS Integers, Sequences, FiniteSets, TLC

(***************************************************************************)
(* Bounds of the model.                                                    *)
(***************************************************************************)
MaxTables == 3
MaxQueries == 2

(***************************************************************************)
(* Program constants.                                                      *)
(***************************************************************************)
MAX_QUERY_WORKERS == 2
CHANNEL_CAPACITY == 100

(***************************************************************************)
(* Option<T> is a sequence of length at most one.                          *)
(***************************************************************************)
None == <<>>
Some(x) == <<x>>
IsSome(o) == o # <<>>
Unwrap(o) == o[1]

Ok(v) == [ok |-> TRUE, val |-> v]
Err(kind, errs) == [ok |-> FALSE, err |-> kind, errors |-> errs]
Error(message) == [message |-> message, context |-> None]
ErrorWithContext(message, context) == [message |-> message, context |-> Some(context)]

Put(f, k, v) == [x \in DOMAIN f \cup {k} |-> IF x = k THEN v ELSE f[x]]
Drop(f, k) == [x \in DOMAIN f \ {k} |-> f[x]]
Range(s) == {s[i] : i \in DOMAIN s}

TableIds == 1..MaxTables
QueryIds == 1..MaxQueries

(***************************************************************************)
(* Inputs.  Names of tables and columns, schemas offered to create_table,  *)
(* and the files present on disk.  A CSV field is a sequence of            *)
(* characters; a file is the sequence of its lines, each a sequence of     *)
(* fields.                                                                 *)
(***************************************************************************)
Names == {"t"}

ColsAB == << [name |-> "a", type |-> "INT64"], [name |-> "b", type |-> "VARCHAR"] >>
ColsAA == << [name |-> "a", type |-> "INT64"], [name |-> "a", type |-> "VARCHAR"] >>
TableSchemas == {[name |-> n, columns |-> c] : n \in Names, c \in {ColsAB, ColsAA}}

FileSystem ==
    [p \in {"rows.csv", "empty.csv"} |->
        CASE p = "rows.csv" -> << << <<"1">>, <<"2">> >>, << <<" ", "3">>, <<"4">> >> >>
          [] p = "empty.csv" -> << >>]

VARIABLES
    tables,                  \* Metastore.tables: TableId -> TableMetaData
    tables_name_id,          \* Metastore.tables_name_id: name -> TableId
    scheduled_for_deletion,  \* Metastore.scheduled_for_deletion
    table_accesses,          \* Metastore.table_accesses: TableId -> set of QueryId
    queries,                 \* Metastore.queries: QueryId -> Query
    query_queue,             \* the mpsc channel from submit_query to QueryEngine::run
    dispatcher,              \* the id QueryEngine::run has received and not yet spawned
    pc,                      \* position of the worker task of each query
    plan,                    \* the PhysicalPlan a worker holds
    local,                   \* the other task-local values of a worker
    last,                    \* the mutating request handled last and its response
    max_concurrent,          \* QueryEngine::new(metastore, max_concurrent): the semaphore's permits
    hist,                    \* history of each query: first target, content before a COPY,
                             \* flushed, and whether its COPY has written to the Catalog
    isdb                     \* the serializer's run: the values in memory, the bytes written, the values read back

catalog == <<tables, tables_name_id, scheduled_for_deletion, table_accesses, queries>>
engine == <<query_queue, dispatcher, pc, plan, local>>
vars == <<tables, tables_name_id, scheduled_for_deletion, table_accesses, queries,
          query_queue, dispatcher, pc, plan, local, last, max_concurrent, hist, isdb>>

NoCall == [op |-> "none"]
Call(op, arg, ret) == [op |-> op, arg |-> arg, ret |-> ret]

(***************************************************************************)
(* Uuid::new_v4(): an identifier never used before.                        *)
(***************************************************************************)
FreshTableId == Cardinality(DOMAIN tables) + 1
FreshQueryId == Cardinality(DOMAIN queries) + 1

(***************************************************************************)
(* Metastore: tables.                                                      *)
(***************************************************************************)
get_shallow_tables ==
    {[id |-> id, name |-> tables[id].name] :
        id \in {i \in DOMAIN tables : i \notin scheduled_for_deletion}}

TableSchemaOf(metadata) ==
    [name |-> metadata.name,
     columns |-> [i \in 1..Len(metadata.table.columns) |->
                    [name |-> metadata.table.columns[i].name,
                     type |-> IF metadata.table.columns[i].type = "INT64"
                              THEN "INT64" ELSE "VARCHAR"]]]

get_table(id) ==
    IF id \in scheduled_for_deletion
    THEN Err("TableAccessError", <<Error("Couldn't find a table of given ID")>>)
    ELSE IF id \in DOMAIN tables
         THEN Ok(TableSchemaOf(tables[id]))
         ELSE Err("TableAccessError", <<Error("Couldn't find a table of given ID")>>)

get_table_internal(table_id) ==
    IF table_id \in DOMAIN tables THEN Some(tables[table_id].table) ELSE None

\* Variant: a name counts as taken as long as tables_name_id binds it.
NameIsBound(name) ==
    name \in DOMAIN tables_name_id

NameIsLive(name) ==
    /\ name \in DOMAIN tables_name_id
    /\ tables_name_id[name] \notin scheduled_for_deletion

\* Variant: no column is ever reported as repeated.
NoRepeatedColumns(columns) ==
    << >>

RepeatedColumns(columns) ==
    SelectSeq([i \in 1..Len(columns) |-> i],
              LAMBDA i : \E j \in 1..(i - 1) : columns[j].name = columns[i].name)

CreateTableErrors(table_schema) ==
    (IF NameIsLive(table_schema.name)
     THEN <<Error("Table with given name already exists")>> ELSE <<>>)
    \o [k \in 1..Len(RepeatedColumns(table_schema.columns)) |->
            ErrorWithContext("Two columns have identical names",
                table_schema.columns[RepeatedColumns(table_schema.columns)[k]].name)]

NewColumn(column) ==
    [name |-> column.name,
     type |-> IF column.type = "INT64" THEN "INT64" ELSE "STR",
     data |-> <<>>]

NewTableMetaData(table_schema) ==
    [name |-> table_schema.name,
     table |-> [num_rows |-> 0,
                columns |-> [i \in 1..Len(table_schema.columns) |->
                                NewColumn(table_schema.columns[i])]]]

(***************************************************************************)
(* Requests offered to submit_query.  An expression of a projection list   *)
(* is a column reference.                                                  *)
(***************************************************************************)
Ref(column_name) == [kind |-> "Ref", column_name |-> column_name]

SelectAllRequests == {[table_name |-> Some(n)] : n \in Names} \cup {[table_name |-> None]}

SelectRequests ==
    {[table_name |-> Some(n), column_clauses |-> c, where_clause |-> None,
      order_by_clause |-> << >>, limit |-> None] :
        n \in Names, c \in {<<Ref("b"), Ref("a")>>, <<Ref("zz")>>}}
    \cup {[table_name |-> None, column_clauses |-> <<Ref("a")>>, where_clause |-> None,
           order_by_clause |-> << >>, limit |-> None]}

CopyRequest(path, name, mapping, header) ==
    [source_filepath |-> path, destination_table_name |-> name,
     destination_columns |-> mapping, does_csv_contain_header |-> header]

CopyRequests ==
    UNION {{CopyRequest("rows.csv", n, None, None),
            CopyRequest("rows.csv", n, Some(<<"b", "a">>), Some(TRUE)),
            CopyRequest("rows.csv", n, Some(<<"a", "a">>), Some(FALSE)),
            CopyRequest("rows.csv", n, Some(<<"a", "zz">>), None),
            CopyRequest("rows.csv", n, Some(<<"a">>), None),
            CopyRequest("empty.csv", n, None, None),
            CopyRequest("missing.csv", n, None, None)} : n \in Names}

RowLimits == {None}

(***************************************************************************)
(* Metastore: queries.  Each create_*_query returns the definition of the  *)
(* query it is about to insert, or the error it returns.                   *)
(***************************************************************************)
LookupName(table_name) ==
    IF table_name \in DOMAIN tables_name_id THEN Some(tables_name_id[table_name]) ELSE None

LookupLiveName(table_name) ==
    IF NameIsLive(table_name) THEN Some(tables_name_id[table_name]) ELSE None

NoSuchTable(table_name) ==
    Err("QueryCreationError",
        <<ErrorWithContext("There is no table with that name", table_name)>>)

create_select_query(query) ==
    IF ~IsSome(query.table_name)
    THEN Err("QueryCreationError", <<Error("Missing table name")>>)
    ELSE LET table_name == Unwrap(query.table_name)
             table_id == LookupName(table_name)
         IN  IF ~IsSome(table_id)
             THEN NoSuchTable(table_name)
             ELSE Ok([kind |-> "Select", table_id |-> table_id,
                      table_name |-> table_name,
                      column_clauses |-> query.column_clauses,
                      where_clause |-> query.where_clause,
                      order_by_clause |-> query.order_by_clause,
                      limit |-> query.limit])

create_select_all_query(query) ==
    IF ~IsSome(query.table_name)
    THEN Err("QueryCreationError", <<Error("Missing table name")>>)
    ELSE LET table_name == Unwrap(query.table_name)
             table_id == LookupLiveName(table_name)
         IN  IF ~IsSome(table_id)
             THEN NoSuchTable(table_name)
             ELSE Ok([kind |-> "SelectAll", table_id |-> Unwrap(table_id),
                      table_name |-> table_name])

create_copy_query(query) ==
    IF query.source_filepath \notin DOMAIN FileSystem
    THEN Err("QueryCreationError",
             <<ErrorWithContext("File does not exist", query.source_filepath)>>)
    ELSE LET table_id == LookupName(query.destination_table_name)
         IN  IF ~IsSome(table_id)
             THEN NoSuchTable(query.destination_table_name)
             ELSE Ok([kind |-> "Copy", table_id |-> Unwrap(table_id),
                      table_name |-> query.destination_table_name,
                      source_filepath |-> query.source_filepath,
                      destination_columns |-> query.destination_columns,
                      does_csv_contain_header |->
                          IF IsSome(query.does_csv_contain_header)
                          THEN Unwrap(query.does_csv_contain_header) ELSE FALSE])

\* The table id a definition names, as an Option.
TargetOf(definition) ==
    IF definition.kind = "Select" THEN definition.table_id ELSE Some(definition.table_id)

NewQuery(status, definition) ==
    [status |-> status, definition |-> definition, result |-> None, errors |-> None]

\* Variant: the new reader replaces the readers the table had.
ReplaceAccess(accesses, table_id, query_id) ==
    Put(accesses, table_id, {query_id})

AddAccess(accesses, table_id, query_id) ==
    Put(accesses, table_id,
        (IF table_id \in DOMAIN accesses THEN accesses[table_id] ELSE {}) \cup {query_id})

RemoveAccess(accesses, table_id, query_id) ==
    IF table_id \in DOMAIN accesses
    THEN [accesses EXCEPT ![table_id] = @ \ {query_id}]
    ELSE accesses

Readers(table_id) ==
    IF table_id \in DOMAIN table_accesses THEN table_accesses[table_id] ELSE {}

(***************************************************************************)
(* The worker positions from which a query may still allocate a table id   *)
(* (a SELECT result table or a COPY snapshot); creation requests are       *)
(* offered only while an id remains for each of them.                      *)
(***************************************************************************)
BeforeAllocation ==
    {"queued", "plan", "plan_lookup", "planned", "select_read", "select_store",
     "copy_read", "copy_snapshot"}

PendingAllocations ==
    Cardinality({q \in DOMAIN queries :
        /\ queries[q].definition.kind \in {"Select", "Copy"}
        /\ pc[q] \in BeforeAllocation})

IdsRemain(extra) == Cardinality(DOMAIN tables) + PendingAllocations + extra <= MaxTables

NoRun == [stage |-> "none"]
NoLocal == [query_def |-> None, result |-> None, data |-> None]
NoHist == [target |-> None, before |-> None, flushed |-> FALSE, wrote |-> FALSE]

(***************************************************************************)
(* Initial state: Metastore::new(), an empty channel, no worker.           *)
(***************************************************************************)
Started(permits) ==
    /\ tables = << >>
    /\ tables_name_id = << >>
    /\ scheduled_for_deletion = {}
    /\ table_accesses = << >>
    /\ queries = << >>
    /\ query_queue = << >>
    /\ dispatcher = None
    /\ pc = [q \in QueryIds |-> "none"]
    /\ plan = [q \in QueryIds |-> None]
    /\ local = [q \in QueryIds |-> NoLocal]
    /\ last = NoCall
    /\ hist = [q \in QueryIds |-> NoHist]
    /\ max_concurrent = permits
    /\ isdb = NoRun

\* server::create: QueryEngine::new(metastore, MAX_QUERY_WORKERS)
Init == Started(MAX_QUERY_WORKERS)

\* The same server built with a single worker permit.
InitOneWorker == Started(1)

(***************************************************************************)
(* Server handlers on tables.  The handlers that only read (get_tables,     *)
(* get_table_by_id, get_query_result without flush) are the operators      *)
(* get_shallow_tables, get_table and get_query_result of the current       *)
(* state.                                                                  *)
(***************************************************************************)
CreateTable(table_schema) ==
    LET errors == CreateTableErrors(table_schema)
        table_id == FreshTableId
    IN  /\ IF errors # << >>
           THEN /\ UNCHANGED <<max_concurrent, isdb>>
                /\ last' = Call("create_table", table_schema,
                                Err("TableCreationError", errors))
                /\ UNCHANGED <<tables, tables_name_id>>
           ELSE /\ IdsRemain(1)
                /\ tables' = Put(tables, table_id, NewTableMetaData(table_schema))
                /\ tables_name_id' = Put(tables_name_id, table_schema.name, table_id)
                /\ UNCHANGED <<max_concurrent, isdb>>
                /\ last' = Call("create_table", table_schema, Ok(table_id))
        /\ UNCHANGED <<scheduled_for_deletion, table_accesses, queries, engine, hist>>

\* Variant: every table of the map can be deleted, scheduled or not.
delete_table_again(id) ==
    IF id \in DOMAIN tables
    THEN Ok(id)
    ELSE Err("TableDeletionError", <<Error("Couldn't find a table of given ID")>>)

delete_table(id) ==
    IF id \in scheduled_for_deletion
    THEN Err("TableDeletionError", <<Error("Couldn't find a table of given ID")>>)
    ELSE IF id \in DOMAIN tables
         THEN Ok(id)
         ELSE Err("TableDeletionError", <<Error("Couldn't find a table of given ID")>>)

\* Variant: a deleted table is removed from the map at once.
DeleteTableEagerly(id) ==
    LET ret == delete_table(id)
    IN  /\ scheduled_for_deletion' =
               IF ret.ok THEN scheduled_for_deletion \cup {id} ELSE scheduled_for_deletion
        /\ tables' = IF ret.ok THEN Drop(tables, id) ELSE tables
        /\ UNCHANGED <<max_concurrent, isdb>>
        /\ last' = Call("delete_table", id, ret)
        /\ UNCHANGED <<tables_name_id, table_accesses, queries, engine, hist>>

DeleteTable(id) ==
    LET ret == delete_table(id)
    IN  /\ scheduled_for_deletion' =
               IF ret.ok THEN scheduled_for_deletion \cup {id} ELSE scheduled_for_deletion
        /\ UNCHANGED <<max_concurrent, isdb>>
        /\ last' = Call("delete_table", id, ret)
        /\ UNCHANGED <<tables, tables_name_id, table_accesses, queries, engine, hist>>

(***************************************************************************)
(* Server::submit_query: under the write lock, create the query and, on    *)
(* success, send its id to the engine.                                     *)
(***************************************************************************)
InsertQuery(query_id, definition) ==
    /\ table_accesses' = AddAccess(table_accesses, Unwrap(TargetOf(definition)), query_id)
    /\ queries' = Put(queries, query_id, NewQuery("Created", definition))

SubmitQuery(kind, request) ==
    LET created == CASE kind = "SelectAll" -> create_select_all_query(request)
                     [] kind = "Select" -> create_select_query(request)
                     [] kind = "Copy" -> create_copy_query(request)
        query_id == FreshQueryId
    IN  IF created.ok
        THEN /\ query_id <= MaxQueries
             /\ kind = "SelectAll" \/ IdsRemain(1)
             /\ Len(query_queue) < CHANNEL_CAPACITY
             /\ InsertQuery(query_id, created.val)
             /\ query_queue' = Append(query_queue, query_id)
             /\ pc' = [pc EXCEPT ![query_id] = "queued"]
             /\ hist' = [hist EXCEPT ![query_id] =
                            [target |-> TargetOf(created.val), before |-> None,
                             flushed |-> FALSE, wrote |-> FALSE]]
             /\ UNCHANGED <<max_concurrent, isdb>>
             /\ last' = Call("submit_query", [kind |-> kind, request |-> request],
                             Ok(query_id))
             /\ UNCHANGED <<tables, tables_name_id, scheduled_for_deletion,
                            dispatcher, plan, local>>
        ELSE /\ UNCHANGED <<max_concurrent, isdb>>
             /\ last' = Call("submit_query", [kind |-> kind, request |-> request], created)
             /\ UNCHANGED <<catalog, engine, hist>>

(***************************************************************************)
(* Reading a result.                                                       *)
(***************************************************************************)
Min(a, b) == IF a < b THEN a ELSE b

\* raw.iter().take(row_count as usize): a negative row_count casts to a huge count
Take(data, row_count) ==
    IF row_count < 0 THEN data ELSE SubSeq(data, 1, Min(row_count, Len(data)))

QueryResultInner(id, row_limit) ==
    LET table == tables[id].table
        row_count == IF IsSome(row_limit)
                     THEN Min(table.num_rows, Unwrap(row_limit))
                     ELSE table.num_rows
    IN  [row_count |-> row_count,
         columns |-> [i \in 1..Len(table.columns) |->
                        Take(table.columns[i].data, row_count)]]

get_query_result(query_id, row_limit) ==
    IF query_id \notin DOMAIN queries
    THEN Err("QueryAccessError", <<Error("Couldn't find a query of given ID")>>)
    ELSE IF ~IsSome(queries[query_id].result)
         THEN Err("QueryResultAccessError",
                  <<Error("Result for this query is not available")>>)
         ELSE LET result == Unwrap(queries[query_id].result)
              IN  IF \E i \in 1..Len(result) : result[i].table_id \notin DOMAIN tables
                  THEN Err("panic", << >>)
                  ELSE Ok([i \in 1..Len(result) |->
                              QueryResultInner(result[i].table_id, row_limit)])

\* Metastore::get_query_error
get_query_error(id) ==
    IF id \notin DOMAIN queries
    THEN Err("QueryAccessError", <<Error("Couldn't find a query of given ID")>>)
    ELSE IF ~IsSome(queries[id].errors)
         THEN Err("QueryErrorAccessError",
                  <<Error("Error for this query is not available")>>)
         ELSE Ok(Unwrap(queries[id].errors))

\* table_ids.iter().for_each(|id| set.remove(&query_id))
ReleaseResultTables(accesses, query_id, table_ids) ==
    [id \in DOMAIN accesses |->
        IF id \in table_ids THEN accesses[id] \ {query_id} ELSE accesses[id]]

GetQueryResultFlush(query_id, row_limit) ==
    LET ret == get_query_result(query_id, row_limit)
    IN  /\ UNCHANGED <<max_concurrent, isdb>>
        /\ last' = Call("get_query_result_flush",
                        [query_id |-> query_id, row_limit |-> row_limit], ret)
        /\ IF ret.ok
           THEN /\ table_accesses' =
                      ReleaseResultTables(table_accesses, query_id,
                          {r.table_id : r \in Range(Unwrap(queries[query_id].result))})
                /\ hist' = [hist EXCEPT ![query_id].flushed = TRUE]
           ELSE UNCHANGED <<table_accesses, hist>>
        /\ UNCHANGED <<tables, tables_name_id, scheduled_for_deletion, queries, engine>>

(***************************************************************************)
(* QueryEngine::run: receive an id, acquire a permit, spawn the worker.    *)
(* A worker holds its permit from the spawn until its task ends.           *)
(***************************************************************************)
HoldsPermit(q) == pc[q] \notin {"none", "sending", "queued", "done", "panicked"}
PermitsInUse == Cardinality({q \in DOMAIN pc : HoldsPermit(q)})

Recv ==
    /\ dispatcher = None
    /\ query_queue # << >>
    /\ dispatcher' = Some(Head(query_queue))
    /\ query_queue' = Tail(query_queue)
    /\ UNCHANGED <<max_concurrent, isdb>>
    /\ last' = NoCall
    /\ UNCHANGED <<catalog, pc, plan, local, hist>>

\* Variant: the worker is spawned without waiting for a permit.
SpawnWithoutPermit ==
    /\ IsSome(dispatcher)
    /\ pc' = [pc EXCEPT ![Unwrap(dispatcher)] = "plan"]
    /\ dispatcher' = None
    /\ UNCHANGED <<max_concurrent, isdb>>
    /\ last' = NoCall
    /\ UNCHANGED <<catalog, query_queue, plan, local, hist>>

Spawn ==
    /\ IsSome(dispatcher)
    /\ PermitsInUse < max_concurrent
    /\ pc' = [pc EXCEPT ![Unwrap(dispatcher)] = "plan"]
    /\ dispatcher' = None
    /\ UNCHANGED <<max_concurrent, isdb>>
    /\ last' = NoCall
    /\ UNCHANGED <<catalog, query_queue, plan, local, hist>>

(***************************************************************************)
(* Planner.  A step of a worker returns Fine(value) or Failure(message);   *)
(* a message is its format string followed by its arguments.               *)
(***************************************************************************)
Fine(v) == [ok |-> TRUE, val |-> v]
Failure(message) == [ok |-> FALSE, message |-> message]
QueryError(message) == [message |-> message, context |-> None]

\* Variant: the status is written to every query of the map.
SetStatusOfAll(qs, query_id, status) ==
    [q \in DOMAIN qs |-> [qs[q] EXCEPT !.status = status]]

SetStatus(qs, query_id, status) == [qs EXCEPT ![query_id].status = status]

planner_select_all(select_all) ==
    [kind |-> "SelectAll", table_id |-> select_all.table_id]

\* Variant: only the arithmetic operators count as commutative.
ArithmeticCommutes(operator) ==
    operator \in {"Add", "Multiply"}

\* BinOperator::is_commutative, get_args_types and get_type.  Expression types
\* carry the names of the column data they evaluate to (I64 = "INT64",
\* String = "STR", Bool = "BOOL").
is_commutative(operator) ==
    operator \in {"Add", "Multiply", "And", "Or", "Equal", "NotEqual"}

get_args_types(operator) ==
    IF operator \in {"Add", "Subtract", "Multiply", "Divide"} THEN Some("INT64")
    ELSE IF operator \in {"And", "Or"} THEN Some("BOOL")
    ELSE None

operator_get_type(operator) ==
    IF operator \in {"Add", "Subtract", "Multiply", "Divide"} THEN "INT64" ELSE "BOOL"

\* Variant: every function is declared with one string argument.
OneStringArgument(name) ==
    <<"STR">>

\* FunctionName::arguments_types and FunctionName::get_type
arguments_types(name) ==
    IF name = "Concat" THEN <<"STR", "STR">> ELSE <<"STR">>

function_get_type(name) ==
    IF name = "Strlen" THEN "INT64" ELSE "STR"

\* Operator::get_argument_type and Operator::get_type: the same type
get_argument_type(operator) ==
    IF operator = "Not" THEN "BOOL" ELSE "INT64"

\* query::ColumnExpression::Function and query::ColumnExpression::Unary
FunctionCall(name, arguments) ==
    [kind |-> "Function", name |-> name, arguments |-> arguments]

UnaryOperation(operator, operand) ==
    [kind |-> "Unary", operator |-> operator, operand |-> operand]

\* query::ColumnExpression::Binary
BinaryOperation(operator, left_operand, right_operand) ==
    [kind |-> "Binary", operator |-> operator,
     left_operand |-> left_operand, right_operand |-> right_operand]

\* ColumnExpression::get_columns_names
RECURSIVE get_columns_names(_)
get_columns_names(expr) ==
    CASE expr.kind = "Ref" -> {expr.column_name}
      [] expr.kind = "Literal" -> {}
      [] expr.kind = "Function" ->
           UNION {get_columns_names(expr.arguments[i]) : i \in 1..Len(expr.arguments)}
      [] expr.kind = "Binary" ->
           get_columns_names(expr.left_operand) \cup get_columns_names(expr.right_operand)
      [] expr.kind = "Unary" -> get_columns_names(expr.operand)

\* ColumnExpression::get_type against the column types of the table
RECURSIVE get_type(_, _)
get_type(expr, table_schema) ==
    CASE expr.kind = "Ref" ->
           IF expr.column_name \in DOMAIN table_schema
           THEN [ok |-> TRUE, val |-> table_schema[expr.column_name]]
           ELSE [ok |-> FALSE, message |-> <<"Column not found in schema">>]
      [] expr.kind = "Literal" -> [ok |-> TRUE, val |-> expr.type]
      [] expr.kind = "Function" ->
           LET arg_types == [i \in 1..Len(expr.arguments) |->
                                get_type(expr.arguments[i], table_schema)]
               failed == {i \in 1..Len(expr.arguments) : ~arg_types[i].ok}
               expected_argument_types == arguments_types(expr.name)
           IN  IF failed # {}
               THEN arg_types[CHOOSE i \in failed : \A o \in failed : i <= o]
               ELSE IF Len(arg_types) # Len(expected_argument_types)
               THEN [ok |-> FALSE,
                     message |-> <<"Wrong number of arguments in function '{}'",
                                   expr.name>>]
               ELSE IF \E i \in 1..Len(arg_types) :
                          arg_types[i].val # expected_argument_types[i]
               THEN [ok |-> FALSE,
                     message |-> <<"Wrong type of arguments in function '{}'",
                                   expr.name>>]
               ELSE [ok |-> TRUE, val |-> function_get_type(expr.name)]
      [] expr.kind = "Unary" ->
           LET operand_type == get_type(expr.operand, table_schema)
           IN  IF ~operand_type.ok THEN operand_type
               ELSE IF operand_type.val # get_argument_type(expr.operator)
               THEN [ok |-> FALSE,
                     message |-> <<"Wrong argument type in unary operation">>]
               ELSE [ok |-> TRUE, val |-> get_argument_type(expr.operator)]
      [] expr.kind = "Binary" ->
           LET left_type == get_type(expr.left_operand, table_schema)
               right_type == get_type(expr.right_operand, table_schema)
               operator_types == get_args_types(expr.operator)
           IN  IF ~left_type.ok THEN left_type
               ELSE IF ~right_type.ok THEN right_type
               ELSE IF \/ /\ IsSome(operator_types)
                          /\ \/ left_type.val # Unwrap(operator_types)
                             \/ right_type.val # Unwrap(operator_types)
                       \/ /\ ~IsSome(operator_types)
                          /\ left_type.val # right_type.val
               THEN [ok |-> FALSE,
                     message |-> <<"Wrong types of arguments in binary oparation">>]
               ELSE [ok |-> TRUE, val |-> operator_get_type(expr.operator)]

\* Planner::flatten_expression: operands first, a commutative operation is
\* canonised by swapping its operand ids when left_id < right_id, and a flat
\* node seen before keeps its id (hash-consing).
RECURSIVE flatten_expression(_, _)
RECURSIVE FlattenArguments(_, _, _)
flatten_expression(expr, flat_expressions) ==
    LET left == flatten_expression(expr.left_operand, flat_expressions)
        right == flatten_expression(expr.right_operand, left.flat)
        swapped == is_commutative(expr.operator) /\ left.id < right.id
        child == flatten_expression(expr.operand, flat_expressions)
        args == FlattenArguments(expr.arguments, flat_expressions, << >>)
        flat_node ==
            CASE expr.kind = "Ref" -> [kind |-> "Ref", column_name |-> expr.column_name]
              [] expr.kind = "Literal" ->
                   [kind |-> "Literal", type |-> expr.type, value |-> expr.value]
              [] expr.kind = "Function" ->
                   [kind |-> "Function", name |-> expr.name, arg_ids |-> args.arg_ids]
              [] expr.kind = "Binary" ->
                   [kind |-> "Binary",
                    left |-> IF swapped THEN right.id ELSE left.id,
                    operator |-> expr.operator,
                    right |-> IF swapped THEN left.id ELSE right.id]
              [] expr.kind = "Unary" ->
                   [kind |-> "Unary", operator |-> expr.operator, id |-> child.id]
        flat == CASE expr.kind = "Binary" -> right.flat
                  [] expr.kind = "Unary" -> child.flat
                  [] expr.kind = "Function" -> args.flat
                  [] OTHER -> flat_expressions
    IN  IF \E i \in 1..Len(flat) : flat[i] = flat_node
        THEN [flat |-> flat, id |-> (CHOOSE i \in 1..Len(flat) : flat[i] = flat_node) - 1]
        ELSE [flat |-> Append(flat, flat_node), id |-> Len(flat)]

\* the arguments of a function, flattened from left to right
FlattenArguments(arguments, flat_expressions, arg_ids) ==
    IF arguments = << >>
    THEN [flat |-> flat_expressions, arg_ids |-> arg_ids]
    ELSE LET r == flatten_expression(Head(arguments), flat_expressions)
         IN  FlattenArguments(Tail(arguments), r.flat, Append(arg_ids, r.id))

RECURSIVE FlattenClauses(_, _, _)
FlattenClauses(clauses, flat_expressions, ids) ==
    IF clauses = << >>
    THEN [expressions_map |-> flat_expressions, column_expressions |-> ids]
    ELSE LET r == flatten_expression(Head(clauses), flat_expressions)
         IN  FlattenClauses(Tail(clauses), r.flat, Append(ids, r.id))

\* name -> index of the column (0-based); a later column of the same name wins
ColumnIndexes(table) ==
    [n \in {table.columns[i].name : i \in 1..Len(table.columns)} |->
        (CHOOSE i \in 1..Len(table.columns) :
            /\ table.columns[i].name = n
            /\ \A j \in (i + 1)..Len(table.columns) : table.columns[j].name # n) - 1]

\* limit as usize on an i32: a negative limit wraps to 2^64 + limit, above
\* every length; the model keeps it above every length as 2^31 + limit.
AsUsize(limit) == IF limit >= 0 THEN limit ELSE 2147483647 + limit + 1

\* The outcomes of Planner::select: the missing column reported is any of them.
planner_select(select) ==
    LET clauses == select.column_clauses \o select.where_clause
        column_names == UNION {get_columns_names(clauses[i]) : i \in 1..Len(clauses)}
        table == IF IsSome(select.table_id)
                 THEN get_table_internal(Unwrap(select.table_id)) ELSE None
    IN  IF IsSome(select.table_id) /\ ~IsSome(table)
        THEN {Failure(<<"Table was deleted before planning query">>)}
        ELSE LET column_indexes_map ==
                     IF IsSome(table) THEN ColumnIndexes(Unwrap(table)) ELSE << >>
                 column_types_map ==
                     [n \in DOMAIN column_indexes_map |->
                         Unwrap(table).columns[column_indexes_map[n] + 1].type]
                 missing == column_names \ DOMAIN column_indexes_map
                 types == [i \in 1..Len(clauses) |-> get_type(clauses[i], column_types_map)]
                 untyped == {i \in 1..Len(clauses) : ~types[i].ok}
                 flat == FlattenClauses(select.column_clauses, << >>, << >>)
                 filter == IF IsSome(select.where_clause)
                           THEN flatten_expression(Unwrap(select.where_clause),
                                                   flat.expressions_map)
                           ELSE [flat |-> flat.expressions_map, id |-> 0]
                 unbound == {k \in 1..Len(select.order_by_clause) :
                                select.order_by_clause[k].column_index
                                    >= Len(select.column_clauses)}
             IN  IF missing # {}
                 THEN {Failure(<<"Column '{}' not found", n>>) : n \in missing}
                 ELSE IF untyped # {}
                 THEN {Failure(types[CHOOSE i \in untyped :
                                         \A o \in untyped : i <= o].message)}
                 ELSE IF /\ IsSome(select.where_clause)
                         /\ types[Len(clauses)].val # "BOOL"
                 THEN {Failure(<<"Filter expression must be of type Boolean">>)}
                 ELSE IF unbound # {}
                 THEN {Failure(<<"Column index '{}' in order by clause out of bounds",
                                 ToString(select.order_by_clause[
                                     CHOOSE k \in unbound : \A o \in unbound : k <= o
                                 ].column_index)>>)}
                 ELSE {Fine([kind |-> "Select",
                             table_id |-> select.table_id,
                             column_indexes_map |-> column_indexes_map,
                             expressions_map |-> filter.flat,
                             column_expressions |-> flat.column_expressions,
                             filter_expression |->
                                 IF IsSome(select.where_clause)
                                 THEN Some(filter.id) ELSE None,
                             sorts |-> select.order_by_clause,
                             limit |-> IF IsSome(select.limit)
                                       THEN Some(AsUsize(Unwrap(select.limit)))
                                       ELSE None])}

planner_copy_from_csv(copy) ==
    LET table == get_table_internal(copy.table_id)
    IN  IF ~IsSome(table)
        THEN {Failure(<<"Table was deleted before planning query">>)}
        ELSE IF /\ IsSome(copy.destination_columns)
                /\ Len(Unwrap(table).columns) # Len(Unwrap(copy.destination_columns))
             THEN {Failure(<<"Mapping have different number of rows then destination table">>)}
             ELSE {Fine([kind |-> "CopyFromCsv",
                         table_id |-> copy.table_id,
                         table_name |-> copy.table_name,
                         file_path |-> copy.source_filepath,
                         mapping |-> copy.destination_columns,
                         has_headers |-> copy.does_csv_contain_header])}

\* Planner::plan, first write lock: status := Planning, clone the definition.
\* A SelectAll is planned without a further lock.
PlanStart(q) ==
    /\ pc[q] = "plan"
    /\ queries' = SetStatus(queries, q, "Planning")
    /\ IF queries[q].definition.kind = "SelectAll"
       THEN /\ plan' = [plan EXCEPT ![q] = Some(planner_select_all(queries[q].definition))]
            /\ pc' = [pc EXCEPT ![q] = "planned"]
            /\ UNCHANGED local
       ELSE /\ local' = [local EXCEPT ![q].query_def = Some(queries[q].definition)]
            /\ pc' = [pc EXCEPT ![q] = "plan_lookup"]
            /\ UNCHANGED plan
    /\ UNCHANGED <<max_concurrent, isdb>>
    /\ last' = NoCall
    /\ UNCHANGED <<tables, tables_name_id, scheduled_for_deletion, table_accesses,
                   query_queue, dispatcher, hist>>

\* Planner::select / Planner::copy_from_csv under the read lock.
PlanLookup(q) ==
    /\ pc[q] = "plan_lookup"
    /\ LET query_def == Unwrap(local[q].query_def)
           outcomes == IF query_def.kind = "Select"
                       THEN planner_select(query_def)
                       ELSE planner_copy_from_csv(query_def)
       IN  \E result \in outcomes :
              IF result.ok
              THEN /\ plan' = [plan EXCEPT ![q] = Some(result.val)]
                   /\ local' = [local EXCEPT ![q] = NoLocal]
                   /\ pc' = [pc EXCEPT ![q] = "planned"]
              ELSE /\ local' = [local EXCEPT ![q] =
                                   [NoLocal EXCEPT !.result = Some(result)]]
                   /\ pc' = [pc EXCEPT ![q] = "plan_fail"]
                   /\ UNCHANGED plan
    /\ UNCHANGED <<max_concurrent, isdb>>
    /\ last' = NoCall
    /\ UNCHANGED <<catalog, query_queue, dispatcher, hist>>

\* Planner::fail_query: status and errors only.
\* Variant: the error is recorded and the status is left as it was.
planner_note_error(qs, query_id, error_msg) ==
    [qs EXCEPT ![query_id].errors = Some(<<QueryError(error_msg)>>)]

planner_fail_query(qs, query_id, error_msg) ==
    [qs EXCEPT ![query_id].status = "Failed",
               ![query_id].errors = Some(<<QueryError(error_msg)>>)]

PlanFail(q) ==
    /\ pc[q] = "plan_fail"
    /\ queries' = planner_fail_query(queries, q, Unwrap(local[q].result).message)
    /\ local' = [local EXCEPT ![q] = NoLocal]
    /\ pc' = [pc EXCEPT ![q] = "done"]
    /\ UNCHANGED <<max_concurrent, isdb>>
    /\ last' = NoCall
    /\ UNCHANGED <<tables, tables_name_id, scheduled_for_deletion, table_accesses,
                   query_queue, dispatcher, plan, hist>>

(***************************************************************************)
(* CSV reading and field parsing.                                          *)
(***************************************************************************)
Whitespace == {" "}
DigitValue == [c \in {"0", "1", "2", "3", "4", "5", "6", "7", "8", "9"} |->
                 CASE c = "0" -> 0 [] c = "1" -> 1 [] c = "2" -> 2 [] c = "3" -> 3
                   [] c = "4" -> 4 [] c = "5" -> 5 [] c = "6" -> 6 [] c = "7" -> 7
                   [] c = "8" -> 8 [] c = "9" -> 9]

RECURSIVE TrimStart(_)
TrimStart(s) == IF s # << >> /\ Head(s) \in Whitespace THEN TrimStart(Tail(s)) ELSE s

RECURSIVE TrimEnd(_)
TrimEnd(s) ==
    IF s # << >> /\ s[Len(s)] \in Whitespace THEN TrimEnd(SubSeq(s, 1, Len(s) - 1)) ELSE s

Trim(s) == TrimEnd(TrimStart(s))

RECURSIVE DigitsValue(_)
DigitsValue(s) ==
    IF s = << >> THEN 0 ELSE 10 * DigitsValue(SubSeq(s, 1, Len(s) - 1)) + DigitValue[s[Len(s)]]

\* str::parse::<i64>(): an optional sign and at least one digit, nothing else
ParseI64(s) ==
    LET digits == IF s # << >> /\ Head(s) \in {"+", "-"} THEN Tail(s) ELSE s
    IN  IF digits = << >> \/ \E i \in 1..Len(digits) : digits[i] \notin DOMAIN DigitValue
        THEN None
        ELSE Some(IF Head(s) = "-" THEN 0 - DigitsValue(digits) ELSE DigitsValue(digits))

\* str::parse::<bool>(): exactly "true" or "false"
ParseBool(s) ==
    IF s = <<"t", "r", "u", "e">> THEN Some(TRUE)
    ELSE IF s = <<"f", "a", "l", "s", "e">> THEN Some(FALSE) ELSE None

\* csv::Reader::records(): the header line is not a record; every line must have
\* as many fields as the first one
ReadCsv(file_path, has_headers) ==
    IF file_path \notin DOMAIN FileSystem
    THEN Failure(<<"Failed to open file '{}': {}", file_path>>)
    ELSE LET lines == FileSystem[file_path]
         IN  IF \E i \in 1..Len(lines) : Len(lines[i]) # Len(lines[1])
             THEN Failure(<<"CSV Parse Error: {}">>)
             ELSE Fine(IF has_headers /\ lines # << >> THEN Tail(lines) ELSE lines)

(***************************************************************************)
(* Executor::copy_from_csv, up to the parsed shadow columns.               *)
(***************************************************************************)
ShadowColumns(table) ==
    [n \in {table.columns[i].name : i \in 1..Len(table.columns)} |->
        [type |-> table.columns[ColumnIndexes(table)[n] + 1].type, data |-> << >>]]

OriginalColumnNames(table) == [i \in 1..Len(table.columns) |-> table.columns[i].name]

CsvToTableMap(mapping, shadow_columns, original_column_names, csv_width) ==
    IF IsSome(mapping)
    THEN LET map_names == Unwrap(mapping)
         IN  IF Len(map_names) # Cardinality(DOMAIN shadow_columns)
             THEN Failure(<<"Invalid Mapping: You provided {} columns, but target table has {}.",
                            ToString(Len(map_names)),
                            ToString(Cardinality(DOMAIN shadow_columns))>>)
             ELSE IF csv_width < Len(map_names)
             THEN Failure(<<"CSV too narrow: Mapping requires {} columns, but CSV only has {}.",
                            ToString(Len(map_names)), ToString(csv_width)>>)
             ELSE IF \E i \in 1..Len(map_names) : map_names[i] \notin DOMAIN shadow_columns
             THEN Failure(<<"Mapping references column '{}', which does not exist in table",
                            map_names[CHOOSE i \in 1..Len(map_names) :
                                /\ map_names[i] \notin DOMAIN shadow_columns
                                /\ \A j \in 1..(i - 1) : map_names[j] \in DOMAIN shadow_columns]>>)
             ELSE Fine(map_names)
    ELSE IF csv_width # Cardinality(DOMAIN shadow_columns)
         THEN Failure(<<"Mismatch: Table has {} columns, but CSV has {}.",
                        ToString(Cardinality(DOMAIN shadow_columns)), ToString(csv_width)>>)
         ELSE Fine(original_column_names)

ParseField(type, raw_val) ==
    CASE type = "INT64" -> ParseI64(Trim(raw_val))
      [] type = "STR" -> Some(raw_val)
      [] type = "BOOL" -> ParseBool(Trim(raw_val))

RECURSIVE ParseRecord(_, _, _, _, _)
ParseRecord(record, row_idx, csv_to_table_map, i, shadow_columns) ==
    IF i > Len(csv_to_table_map)
    THEN Fine(shadow_columns)
    ELSE LET col_name == csv_to_table_map[i]
             val == ParseField(shadow_columns[col_name].type, record[i])
         IN  IF IsSome(val)
             THEN ParseRecord(record, row_idx, csv_to_table_map, i + 1,
                      [shadow_columns EXCEPT ![col_name].data = Append(@, Unwrap(val))])
             ELSE Failure(<<"Type Error at Row {}, Column '{}': Expected INT64, got '{}'",
                            ToString(row_idx), col_name, ToString(record[i])>>)

RECURSIVE ParseRecords(_, _, _, _, _)
ParseRecords(records, row_idx, csv_width, csv_to_table_map, shadow_columns) ==
    IF row_idx > Len(records)
    THEN Fine(shadow_columns)
    ELSE IF Len(records[row_idx]) # csv_width
         THEN Failure(<<"Row {} length mismatch", ToString(row_idx)>>)
         ELSE LET r == ParseRecord(records[row_idx], row_idx, csv_to_table_map, 1,
                                   shadow_columns)
              IN  IF r.ok
                  THEN ParseRecords(records, row_idx + 1, csv_width, csv_to_table_map, r.val)
                  ELSE r

\* The outcome of copy_from_csv before its first write lock: a failure, a panic
\* (records[0] of an empty record list), or the shadow columns and row count.
CopyParse(copy_plan) ==
    LET records == ReadCsv(copy_plan.file_path, copy_plan.has_headers)
        table == get_table_internal(copy_plan.table_id)
    IN  IF ~records.ok THEN records
        ELSE IF ~IsSome(table)
        THEN Failure(<<"Table {} not found during execution", ToString(copy_plan.table_id)>>)
        ELSE IF records.val = << >>
        THEN [ok |-> FALSE, panic |-> TRUE, message |-> <<"index out of bounds">>]
        ELSE LET shadow_columns == ShadowColumns(Unwrap(table))
                 csv_width == Len(records.val[1])
                 csv_to_table_map ==
                     CsvToTableMap(copy_plan.mapping, shadow_columns,
                                   OriginalColumnNames(Unwrap(table)), csv_width)
             IN  IF ~csv_to_table_map.ok THEN csv_to_table_map
                 ELSE LET parsed == ParseRecords(records.val, 1, csv_width,
                                                 csv_to_table_map.val, shadow_columns)
                      IN  IF ~parsed.ok THEN parsed
                          ELSE Fine([shadow_columns |-> parsed.val,
                                     num_rows |-> Len(records.val)])

IsPanic(r) == "panic" \in DOMAIN r

(***************************************************************************)
(* Executor.                                                               *)
(***************************************************************************)
\* Executor::execute entry: set_status(Running); a SelectAll then computes its
\* result handle without a lock.
ExecStart(q) ==
    /\ pc[q] = "planned"
    /\ queries' = SetStatus(queries, q, "Running")
    /\ LET p == Unwrap(plan[q])
       IN  CASE p.kind = "SelectAll" ->
                  /\ local' = [local EXCEPT ![q].result =
                                  Some(Fine(Some(<<[table_id |-> p.table_id]>>)))]
                  /\ pc' = [pc EXCEPT ![q] = "complete"]
             [] p.kind = "Select" ->
                  /\ pc' = [pc EXCEPT ![q] = "select_read"]
                  /\ UNCHANGED local
             [] p.kind = "CopyFromCsv" ->
                  /\ pc' = [pc EXCEPT ![q] = "copy_read"]
                  /\ UNCHANGED local
    /\ UNCHANGED <<max_concurrent, isdb>>
    /\ last' = NoCall
    /\ UNCHANGED <<tables, tables_name_id, scheduled_for_deletion, table_accesses,
                   query_queue, dispatcher, plan, hist>>

\* FlatExpression::Literal and FlatExpression::Binary (operand ids are 0-based
\* positions of expressions_map).
Literal(type, value) == [kind |-> "Literal", type |-> type, value |-> value]
Binary(left, operator, right) ==
    [kind |-> "Binary", left |-> left, operator |-> operator, right |-> right]

IndexPanic == [ok |-> FALSE, panic |-> TRUE, message |-> <<"index out of bounds">>]

\* Ord::cmp on characters, strings (lexicographic), i64 and bool: -1, 0 or 1.
CharRank(c) ==
    CASE c = " " -> 0 [] c = "1" -> 1 [] c = "2" -> 2 [] c = "3" -> 3 [] c = "4" -> 4
      [] c = "P" -> 5 [] c = "Q" -> 6 [] c = "R" -> 7
      [] c = "p" -> 8 [] c = "q" -> 9 [] c = "r" -> 10 [] OTHER -> 11

RECURSIVE StrCmp(_, _)
StrCmp(x, y) ==
    IF x = << >> /\ y = << >> THEN 0
    ELSE IF x = << >> THEN -1
    ELSE IF y = << >> THEN 1
    ELSE IF CharRank(Head(x)) < CharRank(Head(y)) THEN -1
    ELSE IF CharRank(Head(x)) > CharRank(Head(y)) THEN 1
    ELSE StrCmp(Tail(x), Tail(y))

CmpValue(type, x, y) ==
    CASE type = "INT64" -> (IF x < y THEN -1 ELSE IF x > y THEN 1 ELSE 0)
      [] type = "BOOL" -> (IF x = y THEN 0 ELSE IF y THEN -1 ELSE 1)
      [] type = "STR" -> StrCmp(x, y)

\* i64 division: the quotient is truncated towards zero.
Quotient(l, r) ==
    LET magnitude == (IF l < 0 THEN 0 - l ELSE l) \div (IF r < 0 THEN 0 - r ELSE r)
    IN  IF (l < 0) = (r < 0) THEN magnitude ELSE 0 - magnitude

\* Variant: a zero divisor yields 0 instead of an error.
DivideOrZero(left_res, right_res) ==
    Fine([type |-> "INT64",
          data |-> [i \in 1..Min(Len(left_res.data), Len(right_res.data)) |->
                       IF right_res.data[i] = 0 THEN 0
                       ELSE Quotient(left_res.data[i], right_res.data[i])]])

\* evaluate_binary_expression, Divide on INT64: "Division by 0" when a zipped
\* row has a zero divisor.
Divide(left_res, right_res) ==
    IF \E i \in 1..Min(Len(left_res.data), Len(right_res.data)) : right_res.data[i] = 0
    THEN Failure(<<"Division by 0">>)
    ELSE Fine([type |-> "INT64",
               data |-> [i \in 1..Min(Len(left_res.data), Len(right_res.data)) |->
                            Quotient(left_res.data[i], right_res.data[i])]])

\* Executor::evaluate_binary_expression: the operands are zipped, so the
\* result is as long as the shorter.  The sums and products of the values
\* used stay far inside i64.
evaluate_binary_expression(operator, left_res, right_res) ==
    LET zipped == 1..Min(Len(left_res.data), Len(right_res.data))
        ordering(i) == CmpValue(left_res.type, left_res.data[i], right_res.data[i])
        compared == [i \in zipped |->
                        CASE operator = "Equal" -> ordering(i) = 0
                          [] operator = "NotEqual" -> ordering(i) # 0
                          [] operator = "LessThan" -> ordering(i) = -1
                          [] operator = "LessEqual" -> ordering(i) # 1
                          [] operator = "GreaterThan" -> ordering(i) = 1
                          [] operator = "GreaterEqual" -> ordering(i) # -1]
    IN  IF left_res.type # right_res.type
        THEN Failure(<<"Missmatched operation types">>)
        ELSE IF left_res.type = "INT64" /\ operator = "Divide"
        THEN Divide(left_res, right_res)
        ELSE IF left_res.type = "INT64" /\ operator \in {"Add", "Subtract", "Multiply"}
        THEN Fine([type |-> "INT64",
                   data |-> [i \in zipped |->
                                CASE operator = "Add" -> left_res.data[i] + right_res.data[i]
                                  [] operator = "Subtract" ->
                                       left_res.data[i] - right_res.data[i]
                                  [] operator = "Multiply" ->
                                       left_res.data[i] * right_res.data[i]]])
        ELSE IF operator \in {"Equal", "NotEqual", "LessThan", "LessEqual",
                              "GreaterThan", "GreaterEqual"}
        THEN Fine([type |-> "BOOL", data |-> compared])
        ELSE IF left_res.type = "BOOL" /\ operator \in {"And", "Or"}
        THEN Fine([type |-> "BOOL",
                   data |-> [i \in zipped |->
                                IF operator = "And"
                                THEN left_res.data[i] /\ right_res.data[i]
                                ELSE left_res.data[i] \/ right_res.data[i]]])
        ELSE IF left_res.type = "INT64"
        THEN Failure(<<"Forbidden operation on integers">>)
        ELSE IF zipped = {} THEN Fine([type |-> "BOOL", data |-> << >>])
        ELSE Failure(<<"Forbidden operation on strings">>)

\* str::to_uppercase and str::to_lowercase on the letters the strings hold
to_uppercase(v) ==
    [i \in 1..Len(v) |->
        CASE v[i] = "p" -> "P" [] v[i] = "q" -> "Q" [] v[i] = "r" -> "R"
          [] OTHER -> v[i]]

to_lowercase(v) ==
    [i \in 1..Len(v) |->
        CASE v[i] = "P" -> "p" [] v[i] = "Q" -> "q" [] v[i] = "R" -> "r"
          [] OTHER -> v[i]]

\* Executor::evaluate_function: matched on the name and the number of
\* argument results, then on their types; Concat zips its two arguments.
evaluate_function(function_name, arguments_results) ==
    LET arg == arguments_results[1].data
        right == arguments_results[2].data
    IN  IF function_name = "Concat" /\ Len(arguments_results) = 2
        THEN IF arguments_results[1].type = "STR" /\ arguments_results[2].type = "STR"
             THEN Fine([type |-> "STR",
                        data |-> [i \in 1..Min(Len(arg), Len(right)) |->
                                     arg[i] \o right[i]]])
             ELSE Failure(<<"Concat requires (String, String)">>)
        ELSE IF function_name # "Concat" /\ Len(arguments_results) = 1
        THEN IF arguments_results[1].type # "STR"
             THEN Failure(<<CASE function_name = "Strlen" -> "Strln requires (String)"
                              [] function_name = "Upper" -> "Upper requires (String)"
                              [] function_name = "Lower" -> "Lower requires (String)">>)
             ELSE CASE function_name = "Strlen" ->
                         Fine([type |-> "INT64",
                               data |-> [i \in 1..Len(arg) |-> Len(arg[i])]])
                    [] function_name = "Upper" ->
                         Fine([type |-> "STR",
                               data |-> [i \in 1..Len(arg) |-> to_uppercase(arg[i])]])
                    [] function_name = "Lower" ->
                         Fine([type |-> "STR",
                               data |-> [i \in 1..Len(arg) |-> to_lowercase(arg[i])]])
        ELSE Failure(<<"Wrong number of arguments">>)

\* Executor::evaluate_unary_expression
evaluate_unary_expression(operator, res) ==
    IF operator = "Minus" /\ res.type = "INT64"
    THEN Fine([type |-> "INT64", data |-> [i \in 1..Len(res.data) |-> 0 - res.data[i]]])
    ELSE IF operator = "Not" /\ res.type = "BOOL"
    THEN Fine([type |-> "BOOL", data |-> [i \in 1..Len(res.data) |-> ~res.data[i]]])
    ELSE Failure(<<"Mismatched operation type">>)

\* Executor::evaluate_expression: the operands first, the first error returns.
RECURSIVE evaluate_expression(_, _, _, _)
evaluate_expression(expr_id, expressions_map, working_columns, row_count) ==
    LET expr == expressions_map[expr_id + 1]
    IN  CASE expr.kind = "Ref" ->
               IF expr.column_name \in DOMAIN working_columns
               THEN Fine([type |-> working_columns[expr.column_name].type,
                          data |-> working_columns[expr.column_name].data])
               ELSE Failure(<<"Column name does not exist in execution plan">>)
          [] expr.kind = "Literal" ->
               Fine([type |-> expr.type, data |-> [i \in 1..row_count |-> expr.value]])
          [] expr.kind = "Function" ->
               LET args == [i \in 1..Len(expr.arg_ids) |->
                               evaluate_expression(expr.arg_ids[i], expressions_map,
                                                   working_columns, row_count)]
                   failed == {i \in 1..Len(args) : ~args[i].ok}
               IN  IF failed # {}
                   THEN args[CHOOSE i \in failed : \A o \in failed : i <= o]
                   ELSE evaluate_function(expr.name,
                                          [i \in 1..Len(args) |-> args[i].val])
          [] expr.kind = "Unary" ->
               LET result == evaluate_expression(expr.id, expressions_map,
                                                 working_columns, row_count)
               IN  IF ~result.ok THEN result
                   ELSE evaluate_unary_expression(expr.operator, result.val)
          [] expr.kind = "Binary" ->
               LET left_result == evaluate_expression(expr.left, expressions_map,
                                                      working_columns, row_count)
                   rigt_result == evaluate_expression(expr.right, expressions_map,
                                                      working_columns, row_count)
               IN  IF ~left_result.ok THEN left_result
                   ELSE IF ~rigt_result.ok THEN rigt_result
                   ELSE evaluate_binary_expression(expr.operator, left_result.val,
                                                   rigt_result.val)

\* Executor::apply_mask: read_idx runs over data, a kept value is swapped down
\* to keep_idx, data is truncated to keep_idx; mask[read_idx] is out of bounds
\* when the mask is shorter than data.  Indexes are 0-based.
RECURSIVE ApplyMaskFrom(_, _, _, _)
ApplyMaskFrom(data, mask, read_idx, keep_idx) ==
    IF read_idx >= Len(data) THEN Fine(SubSeq(data, 1, keep_idx))
    ELSE IF read_idx >= Len(mask) THEN IndexPanic
    ELSE IF mask[read_idx + 1]
    THEN ApplyMaskFrom(IF read_idx # keep_idx
                       THEN [data EXCEPT ![read_idx + 1] = data[keep_idx + 1],
                                         ![keep_idx + 1] = data[read_idx + 1]]
                       ELSE data,
                       mask, read_idx + 1, keep_idx + 1)
    ELSE ApplyMaskFrom(data, mask, read_idx + 1, keep_idx)

apply_mask(data, mask) == ApplyMaskFrom(data, mask, 0, 0)

\* execude_plan, the filter: evaluate the WHERE expression to a mask, compact
\* every working column with it, count the true entries.
FilterRows(select_plan, working_columns, current_row_count) ==
    IF ~IsSome(select_plan.filter_expression)
    THEN Fine([working_columns |-> working_columns,
               current_row_count |-> current_row_count])
    ELSE LET filter_result ==
                 evaluate_expression(Unwrap(select_plan.filter_expression),
                     select_plan.expressions_map, working_columns, current_row_count)
         IN  IF ~filter_result.ok THEN filter_result
             ELSE IF filter_result.val.type # "BOOL"
             THEN Failure(<<"Where clause did not evaluate correctly">>)
             ELSE LET mask == filter_result.val.data
                      masked == [n \in DOMAIN working_columns |->
                                    apply_mask(working_columns[n].data, mask)]
                  IN  IF \E n \in DOMAIN working_columns : ~masked[n].ok
                      THEN IndexPanic
                      ELSE Fine([working_columns |->
                                    [n \in DOMAIN working_columns |->
                                        [working_columns[n] EXCEPT !.data = masked[n].val]],
                                 current_row_count |->
                                    Cardinality({i \in 1..Len(mask) : mask[i]})])

\* execude_plan, the closure given to sort_by, on two row indexes (0-based):
\* the first key whose values differ decides, reversed for a descending key;
\* -1, 0 or 1, and 2 when vec[a] or vec[b] is out of bounds.
RECURSIVE CompareRows(_, _, _, _, _)
CompareRows(a, b, sorts, k, evaluated_columns) ==
    IF k > Len(sorts) THEN 0
    ELSE LET col == evaluated_columns[sorts[k].column_index + 1]
         IN  IF a >= Len(col.data) \/ b >= Len(col.data) THEN 2
             ELSE LET ordering == CmpValue(col.type, col.data[a + 1], col.data[b + 1])
                  IN  IF ordering # 0
                      THEN (IF sorts[k].asscending THEN ordering ELSE 0 - ordering)
                      ELSE CompareRows(a, b, sorts, k + 1, evaluated_columns)

\* Variant: the next element also moves left past the elements it is equal to.
RECURSIVE InsertRowPastTies(_, _, _, _, _)
InsertRowPastTies(sorted, row, j, sorts, evaluated_columns) ==
    IF j = 0 THEN <<row>> \o sorted
    ELSE LET c == CompareRows(row, sorted[j], sorts, 1, evaluated_columns)
         IN  IF c = 2 THEN <<-1>>
             ELSE IF c \in {-1, 0}
             THEN InsertRowPastTies(sorted, row, j - 1, sorts, evaluated_columns)
             ELSE SubSeq(sorted, 1, j) \o <<row>> \o SubSeq(sorted, j + 1, Len(sorted))

\* slice::sort_by on a short slice is an insertion sort: the next element moves
\* left past every element it is strictly less than.  <<-1>> stands for a
\* panic inside the comparator.
RECURSIVE InsertRow(_, _, _, _, _)
InsertRow(sorted, row, j, sorts, evaluated_columns) ==
    IF j = 0 THEN <<row>> \o sorted
    ELSE LET c == CompareRows(row, sorted[j], sorts, 1, evaluated_columns)
         IN  IF c = 2 THEN <<-1>>
             ELSE IF c = -1 THEN InsertRow(sorted, row, j - 1, sorts, evaluated_columns)
             ELSE SubSeq(sorted, 1, j) \o <<row>> \o SubSeq(sorted, j + 1, Len(sorted))

RECURSIVE SortRows(_, _, _, _, _)
SortRows(sorted, next, row_count, sorts, evaluated_columns) ==
    IF next >= row_count THEN sorted
    ELSE LET inserted == InsertRow(sorted, next, Len(sorted), sorts, evaluated_columns)
         IN  IF inserted = <<-1>> THEN inserted
             ELSE SortRows(inserted, next + 1, row_count, sorts, evaluated_columns)

sort_by(row_count, sorts, evaluated_columns) ==
    IF sorts = << >> THEN [i \in 1..row_count |-> i - 1]
    ELSE SortRows(<< >>, 0, row_count, sorts, evaluated_columns)

\* Variant: the truncation keeps one row more than the limit.
TruncateAfter(row_indices, limit) ==
    IF row_indices # <<-1>> /\ IsSome(limit) /\ Unwrap(limit) < Len(row_indices)
    THEN SubSeq(row_indices, 1, Unwrap(limit) + 1) ELSE row_indices

\* execude_plan, the limit: row_indices is truncated when it is longer.
Truncate(row_indices, limit) ==
    IF row_indices # <<-1>> /\ IsSome(limit) /\ Unwrap(limit) < Len(row_indices)
    THEN SubSeq(row_indices, 1, Unwrap(limit)) ELSE row_indices

\* execude_plan, the gather: vec[idx] for every row index, out of bounds when
\* the evaluated column is too short; the row count returned is the number of
\* row indices left by the limit.
Materialize(evaluated_columns, row_indices) ==
    IF row_indices = <<-1>> THEN IndexPanic
    ELSE IF \E k \in 1..Len(evaluated_columns) : \E i \in 1..Len(row_indices) :
               row_indices[i] >= Len(evaluated_columns[k].data)
    THEN IndexPanic
    ELSE Fine([columns |->
                 [k \in 1..Len(evaluated_columns) |->
                     [type |-> evaluated_columns[k].type,
                      data |-> [i \in 1..Len(row_indices) |->
                                   evaluated_columns[k].data[row_indices[i] + 1]]]],
               row_count |-> Len(row_indices)])

\* execude_plan from the sort on
SortAndGather(select_plan, current_row_count, evaluated_columns) ==
    Materialize(evaluated_columns,
                Truncate(sort_by(current_row_count, select_plan.sorts, evaluated_columns),
                         select_plan.limit))

\* collect::<Result<Vec<_>, _>>() on the evaluated projections: the first error,
\* or all the columns
Collected(select_plan, current_row_count, evaluated) ==
    IF \E k \in 1..Len(evaluated) : ~evaluated[k].ok
    THEN evaluated[CHOOSE k \in 1..Len(evaluated) :
                       /\ ~evaluated[k].ok
                       /\ \A o \in 1..(k - 1) : evaluated[o].ok]
    ELSE SortAndGather(select_plan, current_row_count,
                       [k \in 1..Len(evaluated) |-> evaluated[k].val])

\* execude_plan from the projections on
Project(select_plan, filtered) ==
    IF ~filtered.ok THEN filtered
    ELSE Collected(select_plan, filtered.val.current_row_count,
                   [k \in 1..Len(select_plan.column_expressions) |->
                       evaluate_expression(select_plan.column_expressions[k],
                           select_plan.expressions_map,
                           filtered.val.working_columns,
                           filtered.val.current_row_count)])

\* execude_plan after the working columns are read: filter, projections,
\* sort, limit, gather.
RunPlan(select_plan, working_columns, row_count) ==
    Project(select_plan, FilterRows(select_plan, working_columns, row_count))

\* execude_plan, working_columns: the column of the table at every index of
\* column_indexes_map, under its name (none without a table)
WorkingColumns(select_plan, table) ==
    [n \in DOMAIN select_plan.column_indexes_map |->
        Unwrap(table).columns[select_plan.column_indexes_map[n] + 1]]

\* Executor::execude_plan: the working columns are the table's columns named
\* by column_indexes_map, the row count is the table's num_rows.
execude_plan(select_plan) ==
    LET table == IF IsSome(select_plan.table_id)
                 THEN get_table_internal(Unwrap(select_plan.table_id)) ELSE None
    IN  IF IsSome(select_plan.table_id) /\ ~IsSome(table)
        THEN Failure(<<"Table {} not found during execution",
                       ToString(Unwrap(select_plan.table_id))>>)
        ELSE RunPlan(select_plan, WorkingColumns(select_plan, table),
                     IF IsSome(table) THEN Unwrap(table).num_rows ELSE 0)

SelectRead(q) ==
    /\ pc[q] = "select_read"
    /\ LET r == execude_plan(Unwrap(plan[q]))
       IN  IF r.ok
           THEN /\ local' = [local EXCEPT ![q].data = Some(r.val)]
                /\ pc' = [pc EXCEPT ![q] = "select_store"]
           ELSE IF IsPanic(r)
           THEN /\ pc' = [pc EXCEPT ![q] = "panicked"]
                /\ UNCHANGED local
           ELSE /\ local' = [local EXCEPT ![q].result = Some(r)]
                /\ pc' = [pc EXCEPT ![q] = "fail"]
    /\ UNCHANGED <<max_concurrent, isdb>>
    /\ last' = NoCall
    /\ UNCHANGED <<catalog, query_queue, dispatcher, plan, hist>>

\* Metastore::create_query_result_table: a table holding the result columns,
\* read by the owning query.
ResultTableMetaData(result_columns, row_count) ==
    [name |-> "query_result",
     table |-> [num_rows |-> row_count,
                columns |-> [k \in 1..Len(result_columns) |->
                                [name |-> ToString(k - 1),
                                 type |-> result_columns[k].type,
                                 data |-> result_columns[k].data]]]]

\* Variant: the result table is registered without its tombstone.
SelectStoreListed(q) ==
    /\ pc[q] = "select_store"
    /\ LET p == Unwrap(plan[q])
           r == Unwrap(local[q].data)
           table_id == FreshTableId
           registered == AddAccess(table_accesses, table_id, q)
       IN  /\ tables' = Put(tables, table_id, ResultTableMetaData(r.columns, r.row_count))
           /\ scheduled_for_deletion' = scheduled_for_deletion
           /\ table_accesses' = IF IsSome(p.table_id)
                                THEN RemoveAccess(registered, Unwrap(p.table_id), q)
                                ELSE registered
           /\ local' = [local EXCEPT ![q] =
                           [NoLocal EXCEPT !.result =
                               Some(Fine(Some(<<[table_id |-> table_id]>>)))]]
    /\ pc' = [pc EXCEPT ![q] = "complete"]
    /\ UNCHANGED <<max_concurrent, isdb>>
    /\ last' = NoCall
    /\ UNCHANGED <<tables_name_id, queries, query_queue, dispatcher, plan, hist>>

\* Executor::select, write lock: register the result table, tombstone it,
\* release the table the plan names.
SelectStore(q) ==
    /\ pc[q] = "select_store"
    /\ LET p == Unwrap(plan[q])
           r == Unwrap(local[q].data)
           table_id == FreshTableId
           registered == AddAccess(table_accesses, table_id, q)
       IN  /\ tables' = Put(tables, table_id, ResultTableMetaData(r.columns, r.row_count))
           /\ scheduled_for_deletion' = scheduled_for_deletion \cup {table_id}
           /\ table_accesses' = IF IsSome(p.table_id)
                                THEN RemoveAccess(registered, Unwrap(p.table_id), q)
                                ELSE registered
           /\ local' = [local EXCEPT ![q] =
                           [NoLocal EXCEPT !.result =
                               Some(Fine(Some(<<[table_id |-> table_id]>>)))]]
    /\ pc' = [pc EXCEPT ![q] = "complete"]
    /\ UNCHANGED <<max_concurrent, isdb>>
    /\ last' = NoCall
    /\ UNCHANGED <<tables_name_id, queries, query_queue, dispatcher, plan, hist>>

\* copy_from_csv: open and read the file, read lock, validate and parse.
CopyRead(q) ==
    /\ pc[q] = "copy_read"
    /\ LET r == CopyParse(Unwrap(plan[q]))
       IN  IF r.ok
           THEN /\ local' = [local EXCEPT ![q].data = Some(r.val)]
                /\ pc' = [pc EXCEPT ![q] = "copy_snapshot"]
           ELSE IF IsPanic(r)
           THEN /\ pc' = [pc EXCEPT ![q] = "panicked"]
                /\ UNCHANGED local
           ELSE /\ local' = [local EXCEPT ![q].result = Some(r)]
                /\ pc' = [pc EXCEPT ![q] = "copy_release"]
    /\ UNCHANGED <<max_concurrent, isdb>>
    /\ last' = NoCall
    /\ UNCHANGED <<catalog, query_queue, dispatcher, plan, hist>>

\* Variant: the result handles are pointed past the snapshot, at an id that
\* is not in the map.
RedirectPastSnapshot(query, table_id, snapshot_id) ==
    [query EXCEPT
        !.result = IF IsSome(@)
                   THEN Some([i \in 1..Len(Unwrap(@)) |->
                                IF Unwrap(@)[i].table_id = table_id
                                THEN [table_id |-> snapshot_id + 1] ELSE Unwrap(@)[i]])
                   ELSE @]

\* The rewrite of one reader by the snapshot step: its result handles and
\* the table id of its definition.
Redirect(query, table_id, snapshot_id) ==
    [query EXCEPT
        !.result = IF IsSome(@)
                   THEN Some([i \in 1..Len(Unwrap(@)) |->
                                IF Unwrap(@)[i].table_id = table_id
                                THEN [table_id |-> snapshot_id] ELSE Unwrap(@)[i]])
                   ELSE @,
        !.definition = IF @.kind = "Select"
                       THEN IF @.table_id = Some(table_id)
                            THEN [@ EXCEPT !.table_id = Some(snapshot_id)] ELSE @
                       ELSE IF @.table_id = table_id
                            THEN [@ EXCEPT !.table_id = snapshot_id] ELSE @]

ActiveReaders(copy_table_id, query_id) == Readers(copy_table_id) \ {query_id}

\* Variant: the readers are added to the snapshot's set and stay in the
\* target's set as well.
CopyReaders(accesses, copy_table_id, snapshot_id, active_readers) ==
    Put(accesses, snapshot_id,
        (IF snapshot_id \in DOMAIN accesses THEN accesses[snapshot_id] ELSE {})
            \cup active_readers)

\* Readers move to the snapshot's set and the target's entry is removed.
TransferReaders(accesses, copy_table_id, snapshot_id, active_readers) ==
    Drop(Put(accesses, snapshot_id,
             (IF snapshot_id \in DOMAIN accesses THEN accesses[snapshot_id] ELSE {})
                 \cup active_readers),
         copy_table_id)

\* copy_from_csv, first write lock: the snapshot step.
CopySnapshot(q) ==
    /\ pc[q] = "copy_snapshot"
    /\ LET copy_plan == Unwrap(plan[q])
           active_readers == ActiveReaders(copy_plan.table_id, q)
           current_table == get_table_internal(copy_plan.table_id)
           snapshot_id == FreshTableId
       IN  IF active_readers = {}
           THEN /\ pc' = [pc EXCEPT ![q] = "copy_append"]
                /\ UNCHANGED <<catalog, local, hist>>
           ELSE IF ~IsSome(current_table)
           THEN /\ local' = [local EXCEPT ![q] =
                    [NoLocal EXCEPT !.result =
                        Some(Failure(<<"Table {} not found", ToString(copy_plan.table_id)>>))]]
                /\ pc' = [pc EXCEPT ![q] = "copy_release"]
                /\ UNCHANGED <<catalog, hist>>
           ELSE /\ tables' = Put(tables, snapshot_id,
                                 [name |-> copy_plan.table_name,
                                  table |-> Unwrap(current_table)])
                /\ queries' = [id \in DOMAIN queries |->
                                  IF id \in active_readers
                                  THEN Redirect(queries[id], copy_plan.table_id, snapshot_id)
                                  ELSE queries[id]]
                /\ table_accesses' = TransferReaders(table_accesses, copy_plan.table_id,
                                                     snapshot_id, active_readers)
                /\ scheduled_for_deletion' = scheduled_for_deletion \cup {snapshot_id}
                /\ pc' = [pc EXCEPT ![q] = "copy_append"]
                /\ hist' = [hist EXCEPT ![q].wrote = TRUE]
                /\ UNCHANGED <<tables_name_id, local>>
    /\ UNCHANGED <<max_concurrent, isdb>>
    /\ last' = NoCall
    /\ UNCHANGED <<query_queue, dispatcher, plan>>

DefaultData(type, num_rows) ==
    [i \in 1..num_rows |-> CASE type = "INT64" -> 0 [] type = "STR" -> << >>
                             [] type = "BOOL" -> FALSE]

\* shadow_columns.remove(&col.name).unwrap_or(default): the shadow buffer of the
\* name the first time it is asked for, the default afterwards
NewData(table, i, shadow_columns, num_rows) ==
    LET col == table.columns[i]
    IN  IF /\ col.name \in DOMAIN shadow_columns
           /\ \A j \in 1..(i - 1) : table.columns[j].name # col.name
        THEN shadow_columns[col.name]
        ELSE [type |-> col.type, data |-> DefaultData(col.type, num_rows)]

\* Variant: every column is extended and the append then reports a mismatch.
AppendRowsRejected(table, shadow_columns, num_rows) ==
    [ok |-> FALSE,
     table |-> [num_rows |-> table.num_rows,
                columns |-> [i \in 1..Len(table.columns) |->
                    [table.columns[i] EXCEPT !.data =
                        @ \o NewData(table, i, shadow_columns, num_rows).data]]]]

\* The append loop: every column is extended by its new data up to the first
\* column whose type differs from its new data; num_rows is bumped only when
\* no column differs.
AppendRows(table, shadow_columns, num_rows) ==
    LET mismatched == {i \in 1..Len(table.columns) :
                          NewData(table, i, shadow_columns, num_rows).type
                              # table.columns[i].type}
        stop == IF mismatched = {} THEN Len(table.columns) + 1
                ELSE CHOOSE i \in mismatched : \A j \in mismatched : i <= j
    IN  [ok |-> mismatched = {},
         table |-> [num_rows |-> IF mismatched = {} THEN table.num_rows + num_rows
                                 ELSE table.num_rows,
                    columns |-> [i \in 1..Len(table.columns) |->
                        IF i < stop
                        THEN [table.columns[i] EXCEPT !.data =
                                 @ \o NewData(table, i, shadow_columns, num_rows).data]
                        ELSE table.columns[i]]]]

\* The content a reader created earlier must keep seeing: recorded for every
\* earlier SELECT of the table when the first append to it happens.
RecordBefore(h, writer, table_id, table) ==
    [id \in QueryIds |->
        IF /\ id \in DOMAIN queries
           /\ id # writer
           /\ queries[id].definition.kind \in {"SelectAll", "Select"}
           /\ h[id].target = Some(table_id)
           /\ h[id].before = None
        THEN [h[id] EXCEPT !.before = Some(table)]
        ELSE h[id]]

\* copy_from_csv, second write lock: the append.
CopyAppend(q) ==
    /\ pc[q] = "copy_append"
    /\ LET copy_plan == Unwrap(plan[q])
           parsed == Unwrap(local[q].data)
           table == get_table_internal(copy_plan.table_id)
       IN  IF ~IsSome(table)
           THEN /\ local' = [local EXCEPT ![q] =
                    [NoLocal EXCEPT !.result =
                        Some(Failure(<<"Table {} deleted during copy",
                                       ToString(copy_plan.table_id)>>))]]
                /\ UNCHANGED <<tables, hist>>
           ELSE LET appended == AppendRows(Unwrap(table), parsed.shadow_columns,
                                           parsed.num_rows)
                IN  /\ tables' = [tables EXCEPT ![copy_plan.table_id].table = appended.table]
                    /\ hist' = [RecordBefore(hist, q, copy_plan.table_id, Unwrap(table))
                                   EXCEPT ![q].wrote = TRUE]
                    /\ local' = [local EXCEPT ![q] =
                           [NoLocal EXCEPT !.result =
                               IF appended.ok THEN Some(Fine(None))
                               ELSE Some(Failure(<<"Columns types mismatched">>))]]
    /\ pc' = [pc EXCEPT ![q] = "copy_release"]
    /\ UNCHANGED <<max_concurrent, isdb>>
    /\ last' = NoCall
    /\ UNCHANGED <<tables_name_id, scheduled_for_deletion, table_accesses, queries,
                   query_queue, dispatcher, plan>>

\* Executor::execute after copy_from_csv returned: release the plan's table.
CopyRelease(q) ==
    /\ pc[q] = "copy_release"
    /\ table_accesses' = RemoveAccess(table_accesses, Unwrap(plan[q]).table_id, q)
    /\ pc' = [pc EXCEPT ![q] = IF Unwrap(local[q].result).ok THEN "complete" ELSE "fail"]
    /\ UNCHANGED <<max_concurrent, isdb>>
    /\ last' = NoCall
    /\ UNCHANGED <<tables, tables_name_id, scheduled_for_deletion, queries,
                   query_queue, dispatcher, plan, local, hist>>

\* Variant: the result is stored and the status is left as it was.
store_result(qs, query_id, result) ==
    [qs EXCEPT ![query_id].result = result]

complete_query(qs, query_id, result) ==
    [qs EXCEPT ![query_id].status = "Completed", ![query_id].result = result]

Complete(q) ==
    /\ pc[q] = "complete"
    /\ queries' = complete_query(queries, q, Unwrap(local[q].result).val)
    /\ local' = [local EXCEPT ![q] = NoLocal]
    /\ plan' = [plan EXCEPT ![q] = None]
    /\ pc' = [pc EXCEPT ![q] = "done"]
    /\ UNCHANGED <<max_concurrent, isdb>>
    /\ last' = NoCall
    /\ UNCHANGED <<tables, tables_name_id, scheduled_for_deletion, table_accesses,
                   query_queue, dispatcher, hist>>

\* Executor::fail_query: status, errors, and release of the table the
\* definition names now.
executor_fail_query(qs, query_id, error_msg) ==
    [qs EXCEPT ![query_id].status = "Failed",
               ![query_id].errors = Some(<<QueryError(error_msg)>>)]

\* Variant: the failure is recorded and the reader sets are left as they are.
FailHolding(q) ==
    /\ pc[q] = "fail"
    /\ queries' = executor_fail_query(queries, q, Unwrap(local[q].result).message)
    /\ local' = [local EXCEPT ![q] = NoLocal]
    /\ plan' = [plan EXCEPT ![q] = None]
    /\ pc' = [pc EXCEPT ![q] = "done"]
    /\ last' = NoCall
    /\ UNCHANGED <<tables, tables_name_id, scheduled_for_deletion, table_accesses,
                   query_queue, dispatcher, hist, max_concurrent, isdb>>

Fail(q) ==
    /\ pc[q] = "fail"
    /\ queries' = executor_fail_query(queries, q, Unwrap(local[q].result).message)
    /\ table_accesses' =
           IF IsSome(TargetOf(queries[q].definition))
           THEN RemoveAccess(table_accesses, Unwrap(TargetOf(queries[q].definition)), q)
           ELSE table_accesses
    /\ local' = [local EXCEPT ![q] = NoLocal]
    /\ plan' = [plan EXCEPT ![q] = None]
    /\ pc' = [pc EXCEPT ![q] = "done"]
    /\ UNCHANGED <<max_concurrent, isdb>>
    /\ last' = NoCall
    /\ UNCHANGED <<tables, tables_name_id, scheduled_for_deletion,
                   query_queue, dispatcher, hist>>

(***************************************************************************)
(* The system: request handlers, the dispatcher and the workers.           *)
(***************************************************************************)
Next ==
    \/ \E table_schema \in TableSchemas : CreateTable(table_schema)
    \/ \E id \in TableIds : DeleteTable(id)
    \/ \E request \in SelectAllRequests : SubmitQuery("SelectAll", request)
    \/ \E request \in SelectRequests : SubmitQuery("Select", request)
    \/ \E request \in CopyRequests : SubmitQuery("Copy", request)
    \/ \E q \in QueryIds, row_limit \in RowLimits : GetQueryResultFlush(q, row_limit)
    \/ Recv
    \/ Spawn
    \/ \E q \in QueryIds : PlanStart(q)
    \/ \E q \in QueryIds : PlanLookup(q)
    \/ \E q \in QueryIds : PlanFail(q)
    \/ \E q \in QueryIds : ExecStart(q)
    \/ \E q \in QueryIds : SelectRead(q)
    \/ \E q \in QueryIds : SelectStore(q)
    \/ \E q \in QueryIds : CopyRead(q)
    \/ \E q \in QueryIds : CopySnapshot(q)
    \/ \E q \in QueryIds : CopyAppend(q)
    \/ \E q \in QueryIds : CopyRelease(q)
    \/ \E q \in QueryIds : Complete(q)
    \/ \E q \in QueryIds : Fail(q)

Spec == Init /\ [][Next]_vars

SpecOneWorker == InitOneWorker /\ [][Next]_vars

(***************************************************************************)
(* The SELECT pipeline on its own: one stored table t(a INT64, b VARCHAR),  *)
(* one SELECT a, b FROM t whose worker has set PLANNING, then Planner::select *)
(* and Executor::select.  The stored tables are the ones COPY leaves: the   *)
(* well-formed ones, and the ones a COPY with destination_columns           *)
(* ["a", "a"] leaves, where a received both fields of every record.         *)
(***************************************************************************)
MaxRows == 3
IntValues == {1, 2}
StrValues == {<<"p">>, <<"q">>}

ColumnsAB(a, b) ==
    << [name |-> "a", type |-> "INT64", data |-> a],
       [name |-> "b", type |-> "STR", data |-> b] >>

WellFormedTables ==
    UNION {{[num_rows |-> n, columns |-> ColumnsAB(a, b)] :
               a \in [1..n -> IntValues], b \in [1..n -> StrValues]} : n \in 0..MaxRows}

RepeatedMappingTables ==
    UNION {{[num_rows |-> n, columns |-> ColumnsAB(a, << >>)] :
               a \in [1..(2 * n) -> IntValues]} : n \in 1..2}

StoredTables == WellFormedTables \cup RepeatedMappingTables

WhereClauses ==
    {None,
     Some(BinaryOperation("GreaterThan", Ref("a"), Literal("INT64", 1))),
     Some(BinaryOperation("Equal", Ref("b"), Literal("STR", <<"p">>))),
     Some(Literal("BOOL", TRUE))}

OrderBy(column_index, asscending) ==
    [column_index |-> column_index, asscending |-> asscending]

OrderByClauses ==
    {<< >>, <<OrderBy(0, TRUE)>>, <<OrderBy(0, FALSE)>>, <<OrderBy(1, FALSE)>>,
     <<OrderBy(1, TRUE), OrderBy(0, FALSE)>>}

Limits == {None, Some(-1), Some(0), Some(2)}

SelectQueries ==
    {[kind |-> "Select", table_id |-> Some(1), table_name |-> "t",
      column_clauses |-> <<Ref("a"), Ref("b")>>,
      where_clause |-> w, order_by_clause |-> o, limit |-> l] :
        w \in WhereClauses, o \in OrderByClauses, l \in Limits}

SelectStarted(definitions) ==
    /\ \E table \in StoredTables : tables = [id \in {1} |-> [name |-> "t", table |-> table]]
    /\ tables_name_id = [n \in {"t"} |-> 1]
    /\ scheduled_for_deletion = {}
    /\ table_accesses = [id \in {1} |-> {1}]
    /\ \E definition \in definitions :
          /\ queries = [q \in {1} |-> NewQuery("Planning", definition)]
          /\ local = [q \in QueryIds |->
                         IF q = 1 THEN [NoLocal EXCEPT !.query_def = Some(definition)]
                         ELSE NoLocal]
    /\ query_queue = << >>
    /\ dispatcher = None
    /\ pc = [q \in QueryIds |-> IF q = 1 THEN "plan_lookup" ELSE "none"]
    /\ plan = [q \in QueryIds |-> None]
    /\ last = NoCall
    /\ hist = [q \in QueryIds |->
                  IF q = 1 THEN [NoHist EXCEPT !.target = Some(1)] ELSE NoHist]
    /\ max_concurrent = MAX_QUERY_WORKERS
    /\ isdb = NoRun

InitSelect == SelectStarted(SelectQueries)

SelectNext ==
    \/ PlanLookup(1)
    \/ ExecStart(1)
    \/ SelectRead(1)
    \/ SelectStore(1)

SpecSelect == InitSelect /\ [][SelectNext]_vars

(***************************************************************************)
(* The same worker on SELECTs that divide: a / (a - 1) divides by zero in   *)
(* the rows where a = 1, 2 / a never does; the worker runs to the end of     *)
(* Executor::execute.                                                      *)
(***************************************************************************)
OverAMinusOne(dividend) ==
    BinaryOperation("Divide", dividend,
        BinaryOperation("Subtract", Ref("a"), Literal("INT64", 1)))

DivideQueries ==
    {[kind |-> "Select", table_id |-> Some(1), table_name |-> "t",
      column_clauses |-> c, where_clause |-> w, order_by_clause |-> o, limit |-> l] :
        c \in {<<Ref("a"), OverAMinusOne(Ref("a"))>>,
               <<BinaryOperation("Divide", Literal("INT64", 2), Ref("a"))>>},
        w \in {None,
               Some(BinaryOperation("GreaterThan", Ref("a"), Literal("INT64", 1))),
               Some(BinaryOperation("GreaterThan", OverAMinusOne(Literal("INT64", 2)),
                                    Literal("INT64", 0)))},
        o \in {<< >>, <<OrderBy(0, FALSE)>>},
        l \in {None, Some(0)}}

InitDivide == SelectStarted(DivideQueries)

DivideNext ==
    \/ SelectNext
    \/ Complete(1)
    \/ Fail(1)

SpecDivide == InitDivide /\ [][DivideNext]_vars

(***************************************************************************)
(* The same worker on SELECTs of two columns, a op b and b op a, over        *)
(* operands of one type: the planner flattens both into one plan.            *)
(***************************************************************************)
IntOperands ==
    {Ref("a"), Literal("INT64", 1),
     BinaryOperation("Add", Ref("a"), Literal("INT64", 1)),
     BinaryOperation("Add", Literal("INT64", 1), Ref("a"))}

BoolOperands ==
    {Literal("BOOL", TRUE),
     BinaryOperation("Equal", Ref("a"), Literal("INT64", 1)),
     BinaryOperation("Equal", Literal("INT64", 1), Ref("a"))}

StrOperands == {Ref("b"), Literal("STR", <<"p">>)}

ArithmeticOperators == {"Add", "Subtract", "Multiply", "Divide"}
ComparisonOperators ==
    {"Equal", "NotEqual", "LessThan", "LessEqual", "GreaterThan", "GreaterEqual"}
ConnectiveOperators == {"And", "Or"}

BothOrders(operator, a, b) ==
    [kind |-> "Select", table_id |-> Some(1), table_name |-> "t",
     column_clauses |-> <<BinaryOperation(operator, a, b), BinaryOperation(operator, b, a)>>,
     where_clause |-> None, order_by_clause |-> << >>, limit |-> None]

OperandOrderQueries ==
    {BothOrders(operator, a, b) :
        operator \in ArithmeticOperators \cup ComparisonOperators,
        a \in IntOperands, b \in IntOperands}
    \cup {BothOrders(operator, a, b) :
        operator \in ConnectiveOperators \cup ComparisonOperators,
        a \in BoolOperands, b \in BoolOperands}
    \cup {BothOrders(operator, a, b) :
        operator \in ComparisonOperators, a \in StrOperands, b \in StrOperands}

InitFlatten == SelectStarted(OperandOrderQueries)

FlattenNext ==
    \/ PlanLookup(1)
    \/ ExecStart(1)
    \/ SelectRead(1)
    \/ SelectStore(1)

SpecFlatten == InitFlatten /\ [][FlattenNext]_vars

(***************************************************************************)
(* The same worker on SELECTs of one expression, as the only column or as    *)
(* the WHERE clause, well typed and ill typed: every binary operator over    *)
(* operands of the three types, the unary operators, and the functions on    *)
(* zero, one and two arguments.  No ORDER BY and no LIMIT.                   *)
(***************************************************************************)
TypedOperands == {Ref("a"), Ref("b"), Literal("BOOL", TRUE)}

UnaryOperators == {"Not", "Minus"}
FunctionNames == {"Strlen", "Concat", "Upper", "Lower"}

ArgumentLists ==
    {<< >>} \cup {<<x>> : x \in TypedOperands}
            \cup {<<x, y>> : x \in TypedOperands, y \in TypedOperands}

NestedExpressions ==
    {UnaryOperation("Not", BinaryOperation("LessThan", Ref("a"), Literal("INT64", 1))),
     UnaryOperation("Minus", FunctionCall("Strlen", <<Ref("b")>>)),
     UnaryOperation("Not", UnaryOperation("Minus", Ref("a"))),
     FunctionCall("Strlen", <<FunctionCall("Concat", <<Ref("b"), Literal("STR", <<"p">>)>>)>>),
     FunctionCall("Concat", <<FunctionCall("Upper", <<Ref("b")>>),
                              FunctionCall("Strlen", <<Ref("b")>>)>>),
     BinaryOperation("Equal", FunctionCall("Lower", <<FunctionCall("Upper", <<Ref("b")>>)>>),
                     Ref("b")),
     BinaryOperation("Add", Ref("a"), Ref("c"))}

TypedExpressions ==
    {BinaryOperation(operator, x, y) :
        operator \in ArithmeticOperators \cup ComparisonOperators \cup ConnectiveOperators,
        x \in TypedOperands, y \in TypedOperands}
    \cup {UnaryOperation(operator, x) : operator \in UnaryOperators, x \in TypedOperands}
    \cup {FunctionCall(name, arguments) :
             name \in FunctionNames, arguments \in ArgumentLists}
    \cup NestedExpressions

TypedQueries ==
    {[kind |-> "Select", table_id |-> Some(1), table_name |-> "t",
      column_clauses |-> <<e>>, where_clause |-> None,
      order_by_clause |-> << >>, limit |-> None] : e \in TypedExpressions}
    \cup {[kind |-> "Select", table_id |-> Some(1), table_name |-> "t",
           column_clauses |-> <<Ref("a")>>, where_clause |-> Some(e),
           order_by_clause |-> << >>, limit |-> None] : e \in TypedExpressions}

InitTypes == SelectStarted(TypedQueries)

TypesNext ==
    \/ PlanLookup(1)
    \/ ExecStart(1)
    \/ SelectRead(1)
    \/ SelectStore(1)

SpecTypes == InitTypes /\ [][TypesNext]_vars

(***************************************************************************)
(* The bounded channel.  submit_query keeps its write guard until it         *)
(* returns, so it awaits query_queue.send(id) with the Catalog write-locked:  *)
(* on a full channel the handler is suspended there (pc = "sending") and no   *)
(* other task gets the lock until the dispatcher has received an id.  The     *)
(* channel starts full of SELECT * FROM t queries, submitted before the       *)
(* engine task first ran; a few more are submitted while the dispatcher and   *)
(* the workers drain it.  The engine is QueryEngine::new(metastore, 1).       *)
(***************************************************************************)
ExtraQueries == 2
ChannelQueryIds == 1..(CHANNEL_CAPACITY + MAX_QUERY_WORKERS + ExtraQueries)

SelectAllT == [kind |-> "SelectAll", table_id |-> 1, table_name |-> "t"]

ChannelFull(permits) ==
    /\ tables = [id \in {1} |->
                    [name |-> "t",
                     table |-> [num_rows |-> 0, columns |-> ColumnsAB(<< >>, << >>)]]]
    /\ tables_name_id = [n \in {"t"} |-> 1]
    /\ scheduled_for_deletion = {}
    /\ table_accesses = [id \in {1} |-> 1..CHANNEL_CAPACITY]
    /\ queries = [q \in 1..CHANNEL_CAPACITY |-> NewQuery("Created", SelectAllT)]
    /\ query_queue = [i \in 1..CHANNEL_CAPACITY |-> i]
    /\ dispatcher = None
    /\ pc = [q \in ChannelQueryIds |-> IF q <= CHANNEL_CAPACITY THEN "queued" ELSE "none"]
    /\ plan = [q \in ChannelQueryIds |-> None]
    /\ local = [q \in ChannelQueryIds |-> NoLocal]
    /\ last = NoCall
    /\ hist = [q \in ChannelQueryIds |->
                  IF q <= CHANNEL_CAPACITY THEN [NoHist EXCEPT !.target = Some(1)]
                  ELSE NoHist]
    /\ max_concurrent = permits
    /\ isdb = NoRun

InitChannel == ChannelFull(1)

\* A submit_query is suspended in send(id).await, holding the write guard.
SendBlocked == \E q \in DOMAIN pc : pc[q] = "sending"

\* Server::submit_query on a SelectAll: the query is created under the write
\* lock; send(id).await returns at once when the channel has room, and
\* suspends the handler otherwise.
SubmitQueryAwait(request) ==
    LET created == create_select_all_query(request)
        query_id == FreshQueryId
    IN  /\ ~SendBlocked
        /\ created.ok
        /\ query_id \in DOMAIN pc
        /\ InsertQuery(query_id, created.val)
        /\ IF Len(query_queue) < CHANNEL_CAPACITY
           THEN /\ query_queue' = Append(query_queue, query_id)
                /\ pc' = [pc EXCEPT ![query_id] = "queued"]
                /\ last' = Call("submit_query",
                                [kind |-> "SelectAll", request |-> request], Ok(query_id))
           ELSE /\ pc' = [pc EXCEPT ![query_id] = "sending"]
                /\ last' = NoCall
                /\ UNCHANGED query_queue
        /\ hist' = [hist EXCEPT ![query_id] =
                       [target |-> TargetOf(created.val), before |-> None,
                        flushed |-> FALSE, wrote |-> FALSE]]
        /\ UNCHANGED <<max_concurrent, isdb>>
        /\ UNCHANGED <<tables, tables_name_id, scheduled_for_deletion,
                       dispatcher, plan, local>>

\* The suspended send completes once the channel has room; the handler
\* returns and drops its guard.
SendResume ==
    \E q \in DOMAIN pc :
        /\ pc[q] = "sending"
        /\ Len(query_queue) < CHANNEL_CAPACITY
        /\ query_queue' = Append(query_queue, q)
        /\ pc' = [pc EXCEPT ![q] = "queued"]
        /\ last' = Call("submit_query",
                        [kind |-> "SelectAll", request |-> [table_name |-> Some("t")]],
                        Ok(q))
        /\ UNCHANGED <<max_concurrent, isdb>>
        /\ UNCHANGED <<catalog, dispatcher, plan, local, hist>>

\* A worker's step: every one begins by taking the Catalog lock.
WorkerStep(q) ==
    /\ ~SendBlocked
    /\ \/ PlanStart(q)
       \/ ExecStart(q)
       \/ Complete(q)

ChannelNext ==
    \/ SubmitQueryAwait([table_name |-> Some("t")])
    \/ SendResume
    \/ Recv
    \/ Spawn
    \/ \E q \in ChannelQueryIds : WorkerStep(q)

SpecChannel == InitChannel /\ [][ChannelNext]_vars

(***************************************************************************)
(* Codecs (compress.rs).  An i64 or u64 is its 64 bits, least significant   *)
(* first; a byte is a number in 0..255.  Arithmetic on i64 wraps, or panics  *)
(* on overflow when the build checks overflow (the dev and test profiles     *)
(* do, the release profile does not).                                       *)
(***************************************************************************)
WIDTH == 64

RECURSIVE BitsValue(_)
BitsValue(bits) == IF bits = << >> THEN 0 ELSE Head(bits) + 2 * BitsValue(Tail(bits))

\* the two's complement bits of a number of small magnitude
I64(n) ==
    [i \in 1..WIDTH |-> IF i <= 31 THEN (n \div (2 ^ (i - 1))) % 2
                        ELSE IF n < 0 THEN 1 ELSE 0]

I64_MAX == [i \in 1..WIDTH |-> IF i = WIDTH THEN 0 ELSE 1]
I64_MIN == [i \in 1..WIDTH |-> IF i = WIDTH THEN 1 ELSE 0]

IsNegative(a) == a[WIDTH] = 1

RECURSIVE AddFrom(_, _, _, _, _)
AddFrom(a, b, i, carry, sum) ==
    IF i > WIDTH THEN sum
    ELSE AddFrom(a, b, i + 1, (a[i] + b[i] + carry) \div 2,
                 Append(sum, (a[i] + b[i] + carry) % 2))

wrapping_add(a, b) == AddFrom(a, b, 1, 0, << >>)

wrapping_sub(a, b) == AddFrom(a, [i \in 1..WIDTH |-> 1 - b[i]], 1, 1, << >>)

OverflowPanic(message) == [ok |-> FALSE, panic |-> TRUE, message |-> <<message>>]

\* a - b on i64
Sub(a, b, overflow_checks) ==
    IF /\ overflow_checks
       /\ IsNegative(a) # IsNegative(b)
       /\ IsNegative(wrapping_sub(a, b)) # IsNegative(a)
    THEN OverflowPanic("attempt to subtract with overflow")
    ELSE [ok |-> TRUE, val |-> wrapping_sub(a, b)]

\* a + b on i64
Add(a, b, overflow_checks) ==
    IF /\ overflow_checks
       /\ IsNegative(a) = IsNegative(b)
       /\ IsNegative(wrapping_add(a, b)) # IsNegative(a)
    THEN OverflowPanic("attempt to add with overflow")
    ELSE [ok |-> TRUE, val |-> wrapping_add(a, b)]

\* integer_encoding zigzag: ((n << 1) ^ (n >> 63)) as u64, and back
zigzag_encode(n) ==
    [i \in 1..WIDTH |-> IF i = 1 THEN n[WIDTH] ELSE (n[i - 1] + n[WIDTH]) % 2]

zigzag_decode(u) ==
    [i \in 1..WIDTH |-> IF i = WIDTH THEN u[1] ELSE (u[i + 1] + u[1]) % 2]

\* VarInt::encode_var_vec on the zigzag value: 7 bits a byte, low group
\* first, the top bit set on every byte but the last
RECURSIVE encode_u64(_)
encode_u64(u) ==
    IF \A i \in 8..WIDTH : u[i] = 0
    THEN <<BitsValue(SubSeq(u, 1, 7))>>
    ELSE <<128 + BitsValue(SubSeq(u, 1, 7))>>
         \o encode_u64([i \in 1..WIDTH |-> IF i + 7 <= WIDTH THEN u[i + 7] ELSE 0])

encode_var_vec(n) == encode_u64(zigzag_encode(n))

\* VarInt::decode_var: bytes are taken until one has its top bit clear or 10
\* have been taken; None when the last byte taken has its top bit set or the
\* input is empty.
RECURSIVE DecodeFrom(_, _, _, _)
DecodeFrom(src, k, result, shift) ==
    IF k > Len(src) THEN None
    ELSE LET b == src[k]
             placed == [i \in 1..WIDTH |->
                           IF i > shift /\ i <= shift + 7
                           THEN (IF result[i] = 1 \/ (b \div (2 ^ (i - shift - 1))) % 2 = 1
                                 THEN 1 ELSE 0)
                           ELSE result[i]]
         IN  IF b < 128
             THEN Some([value |-> zigzag_decode(placed), consumed |-> k])
             ELSE IF shift + 7 > 9 * 7 THEN None
             ELSE DecodeFrom(src, k + 1, placed, shift + 7)

decode_var(src) == DecodeFrom(src, 1, [i \in 1..WIDTH |-> 0], 0)

\* VleDeltaIntCompressor::compress
RECURSIVE VleDeltaCompressFrom(_, _, _, _)
VleDeltaCompressFrom(data, last_value, compressed, overflow_checks) ==
    IF data = << >> THEN [ok |-> TRUE, val |-> compressed]
    ELSE LET delta == Sub(Head(data), last_value, overflow_checks)
         IN  IF ~delta.ok THEN delta
             ELSE VleDeltaCompressFrom(Tail(data), Head(data),
                      compressed \o encode_var_vec(delta.val), overflow_checks)

VleDeltaCompress(data, overflow_checks) ==
    VleDeltaCompressFrom(data, I64(0), << >>, overflow_checks)

\* VleDeltaIntCompressor::decompress: the deltas, then their prefix sums
RECURSIVE DecodeDeltas(_, _)
DecodeDeltas(cursor, deltas) ==
    IF cursor = << >> THEN [ok |-> TRUE, val |-> deltas]
    ELSE LET decoded == decode_var(cursor)
         IN  IF ~IsSome(decoded)
             THEN [ok |-> FALSE,
                   message |-> <<"VleDecoding",
                                 "Decoder stopped before going through all data">>]
             ELSE DecodeDeltas(SubSeq(cursor, Unwrap(decoded).consumed + 1, Len(cursor)),
                               Append(deltas, Unwrap(decoded).value))

RECURSIVE PrefixSums(_, _, _, _)
PrefixSums(deltas, last_value, data, overflow_checks) ==
    IF deltas = << >> THEN [ok |-> TRUE, val |-> data]
    ELSE LET sum == Add(Head(deltas), last_value, overflow_checks)
         IN  IF ~sum.ok THEN sum
             ELSE PrefixSums(Tail(deltas), sum.val, Append(data, sum.val), overflow_checks)

VleDeltaDecompress(compressed, overflow_checks) ==
    LET deltas == DecodeDeltas(compressed, << >>)
    IN  IF ~deltas.ok THEN deltas
        ELSE PrefixSums(deltas.val, I64(0), << >>, overflow_checks)

\* i64::to_le_bytes and i64::from_le_bytes
to_le_bytes(n) == [k \in 1..8 |-> BitsValue(SubSeq(n, 8 * (k - 1) + 1, 8 * k))]

from_le_bytes(bytes) ==
    [i \in 1..WIDTH |-> (bytes[((i - 1) \div 8) + 1] \div (2 ^ ((i - 1) % 8))) % 2]

RECURSIVE Flatten(_)
Flatten(chunks) == IF chunks = << >> THEN << >> ELSE Head(chunks) \o Flatten(Tail(chunks))

\* NoIntCompressor::compress and decompress
NoIntCompress(data) ==
    [ok |-> TRUE, val |-> Flatten([k \in 1..Len(data) |-> to_le_bytes(data[k])])]

NoIntDecompress(compressed) ==
    IF Len(compressed) % 8 # 0
    THEN [ok |-> FALSE,
          message |-> <<"WrongDataLength", "Data length must be divisable by 8">>]
    ELSE [ok |-> TRUE,
          val |-> [k \in 1..(Len(compressed) \div 8) |->
                      from_le_bytes(SubSeq(compressed, 8 * (k - 1) + 1, 8 * k))]]

\* IntCompressors::compress and decompress
IntCompress(int_compressor, data, overflow_checks) ==
    IF int_compressor = "VleDelta" THEN VleDeltaCompress(data, overflow_checks)
    ELSE NoIntCompress(data)

IntDecompress(int_compressor, compressed, overflow_checks) ==
    IF int_compressor = "VleDelta" THEN VleDeltaDecompress(compressed, overflow_checks)
    ELSE NoIntDecompress(compressed)

(***************************************************************************)
(* String codecs (compress.rs).  A String is a sequence of characters, its   *)
(* bytes are the UTF-8 codes of the characters.                              *)
(***************************************************************************)
Utf8 ==
    ("a" :> 97) @@ ("b" :> 98) @@ ("p" :> 112) @@ ("q" :> 113) @@ ("-" :> 45)
    @@ ("0" :> 48) @@ ("1" :> 49) @@ ("2" :> 50) @@ ("3" :> 51) @@ ("4" :> 52)
    @@ ("5" :> 53) @@ ("6" :> 54) @@ ("7" :> 55) @@ ("8" :> 56) @@ ("9" :> 57)

as_bytes(string) == [k \in 1..Len(string) |-> Utf8[string[k]]]

\* String::from_utf8 and from_utf8_lossy on the bytes of known characters
from_utf8(bytes) ==
    [k \in 1..Len(bytes) |->
        IF \E c \in DOMAIN Utf8 : Utf8[c] = bytes[k]
        THEN CHOOSE c \in DOMAIN Utf8 : Utf8[c] = bytes[k]
        ELSE "?"]

\* data.iter().flat_map(|d| d.as_bytes()) and data.iter().map(|d| d.len() as i64)
RawBytes(data) == Flatten([k \in 1..Len(data) |-> as_bytes(data[k])])

Lengths(data) == [k \in 1..Len(data) |-> I64(Len(data[k]))]

\* a length read back as usize; a length beyond 31 bits is beyond any data here
LengthValue(bits) ==
    IF \E i \in 32..WIDTH : bits[i] = 1 THEN 2147483647
    ELSE BitsValue(SubSeq(bits, 1, 31))

\* u32::to_le_bytes of a small size
SizePrefix(n) == <<n % 256, (n \div 256) % 256, (n \div 65536) % 256, 0>>

\* lz4_flex::compress_prepend_size of an input shorter than 13 bytes, which
\* lz4_flex takes as literals only: the
\* size in 4 bytes, one token with the literal length in its high half, and
\* the literals
compress_prepend_size(raw) == SizePrefix(Len(raw)) \o <<16 * Len(raw)>> \o raw

\* lz4_flex::decompress_size_prepended of a block of one literal run
decompress_size_prepended(compressed) ==
    IF Len(compressed) < 5
    THEN [ok |-> FALSE, message |-> <<"Lz4Decompression">>]
    ELSE LET size == compressed[1] + 256 * compressed[2] + 65536 * compressed[3]
             literals == compressed[5] \div 16
         IN  IF \/ compressed[4] # 0
                \/ compressed[5] % 16 # 0
                \/ literals = 15
                \/ Len(compressed) # 5 + literals
                \/ size # literals
             THEN [ok |-> FALSE, message |-> <<"Lz4Decompression">>]
             ELSE [ok |-> TRUE, val |-> SubSeq(compressed, 6, Len(compressed))]

\* the loop of LZ4StringCompressor::decompress and NoStringCompressor::decompress
RECURSIVE SliceStrings(_, _, _, _)
SliceStrings(raw, lengths, offset, res) ==
    IF lengths = << >> THEN [ok |-> TRUE, val |-> res]
    ELSE IF IsNegative(Head(lengths))
    THEN [ok |-> FALSE,
          message |-> <<"NegativeStringLength", "Negative string length was passed">>]
    ELSE IF offset + LengthValue(Head(lengths)) > Len(raw)
    THEN [ok |-> FALSE,
          message |-> <<"WrongDataLength",
                        "Data length is shorter then declared strings lengths">>]
    ELSE SliceStrings(raw, Tail(lengths), offset + LengthValue(Head(lengths)),
             Append(res, from_utf8(SubSeq(raw, offset + 1,
                                          offset + LengthValue(Head(lengths))))))

\* Variant: the blob is stored without its size and token.
StringCompressBare(string_compressor, data) ==
    [data |-> RawBytes(data), lengths |-> Lengths(data)]

\* StringCompressors::compress
StringCompress(string_compressor, data) ==
    [data |-> IF string_compressor = "LZ4" THEN compress_prepend_size(RawBytes(data))
              ELSE RawBytes(data),
     lengths |-> Lengths(data)]

\* StringCompressors::decompress
StringDecompress(string_compressor, compressed) ==
    IF string_compressor = "LZ4"
    THEN LET raw == decompress_size_prepended(compressed.data)
         IN  IF ~raw.ok THEN raw ELSE SliceStrings(raw.val, compressed.lengths, 0, << >>)
    ELSE SliceStrings(compressed.data, compressed.lengths, 0, << >>)

(***************************************************************************)
(* The serializer (lib.rs).  A file is its sequence of bytes; a position is  *)
(* the number of bytes before it.  A codec error ends the call with that     *)
(* error.                                                                   *)
(***************************************************************************)
MAGIC == <<73, 83, 66, 68>>
FOOTER == <<69, 78, 68, 67>>
VERSION == 1

new_int_col(name, int_data) ==
    [name |-> name, col_type |-> "INT64", int_data |-> Some(int_data), str_data |-> None]

new_str_col(name, str_data) ==
    [name |-> name, col_type |-> "STR", int_data |-> None, str_data |-> Some(str_data)]

\* u64::to_le_bytes and u64::from_le_bytes of a count, and (n as u16).to_le_bytes()
u64_to_le_bytes(n) == to_le_bytes(I64(n))

u64_from_le_bytes(bytes) == LengthValue(from_le_bytes(bytes))

u16_to_le_bytes(n) == <<(n % 65536) % 256, (n % 65536) \div 256>>

\* the first loop of serialize: the column headers with their placeholders
RECURSIVE WriteHeaders(_, _, _)
WriteHeaders(columns, f, placeholders_offsets) ==
    IF columns = << >> THEN [f |-> f, placeholders_offsets |-> placeholders_offsets]
    ELSE LET column == Head(columns)
             described == f \o <<Len(column.name) % 256>> \o as_bytes(column.name)
                            \o <<IF column.col_type = "INT64" THEN 0 ELSE 1>>
         IN  WriteHeaders(Tail(columns),
                 described \o u64_to_le_bytes(0) \o u64_to_le_bytes(0)
                           \o (IF column.col_type = "STR" THEN u64_to_le_bytes(0) ELSE << >>),
                 Append(placeholders_offsets, Len(described)))

\* the second loop of serialize: the payload of every column
RECURSIVE WriteData(_, _, _, _)
WriteData(columns, f, offsets_and_lengths, serializer) ==
    IF columns = << >>
    THEN [ok |-> TRUE, val |-> [f |-> f, offsets_and_lengths |-> offsets_and_lengths]]
    ELSE LET column == Head(columns)
         IN  IF column.col_type = "INT64"
             THEN LET compressed_data ==
                          IntCompress(serializer.int_compressor,
                                      IF IsSome(column.int_data) THEN Unwrap(column.int_data)
                                      ELSE << >>,
                                      serializer.overflow_checks)
                  IN  IF ~compressed_data.ok THEN compressed_data
                      ELSE WriteData(Tail(columns), f \o compressed_data.val,
                               Append(offsets_and_lengths,
                                      [offset |-> Len(f), length |-> Len(compressed_data.val)]),
                               serializer)
             ELSE LET compressed_data ==
                          StringCompress(serializer.string_compressor,
                                         IF IsSome(column.str_data) THEN Unwrap(column.str_data)
                                         ELSE << >>)
                      compressed_int_data ==
                          IntCompress(serializer.int_compressor, compressed_data.lengths,
                                      serializer.overflow_checks)
                  IN  IF ~compressed_int_data.ok THEN compressed_int_data
                      ELSE WriteData(Tail(columns),
                               f \o compressed_data.data \o compressed_int_data.val,
                               Append(offsets_and_lengths,
                                      [offset |-> Len(f),
                                       length |-> Len(compressed_data.data),
                                       length2 |-> Len(compressed_int_data.val)]),
                               serializer)

\* f.seek(SeekFrom::Start(offset)) and f.write_all(bytes) inside the file
WriteAt(f, offset, bytes) ==
    [i \in 1..Len(f) |->
        IF i > offset /\ i <= offset + Len(bytes) THEN bytes[i - offset] ELSE f[i]]

\* the bytes that replace the placeholders of one column
LocationBytes(location) ==
    u64_to_le_bytes(location.offset) \o u64_to_le_bytes(location.length)
    \o (IF "length2" \in DOMAIN location THEN u64_to_le_bytes(location.length2) ELSE << >>)

\* the last loop of serialize
RECURSIVE Backfill(_, _, _)
Backfill(f, placeholders_offsets, offsets_and_lengths) ==
    IF placeholders_offsets = << >> THEN f
    ELSE Backfill(WriteAt(f, Head(placeholders_offsets), LocationBytes(Head(offsets_and_lengths))),
                  Tail(placeholders_offsets), Tail(offsets_and_lengths))

Backfilled(headers, written) ==
    IF ~written.ok THEN written
    ELSE [ok |-> TRUE,
          val |-> Backfill(written.val.f \o FOOTER, headers.placeholders_offsets,
                           written.val.offsets_and_lengths)]

WithData(headers, table, serializer) ==
    Backfilled(headers, WriteData(table.columns, headers.f, << >>, serializer))

\* Serializer::serialize: the bytes of the file, or the panic of a codec
serialize(serializer, table) ==
    WithData(WriteHeaders(table.columns,
                          MAGIC \o <<VERSION>> \o u16_to_le_bytes(Len(table.columns))
                                \o u64_to_le_bytes(table.num_rows),
                          << >>),
             table, serializer)

UnexpectedEof == [ok |-> FALSE, message |-> <<"UnexpectedEof", "failed to fill whole buffer">>]

InvalidData == [ok |-> FALSE, message |-> <<"InvalidData", "Incorrect file indicator">>]

\* the loop of deserialize over the column headers
RECURSIVE ReadDescriptions(_, _, _, _)
ReadDescriptions(f, position, num_cols, descriptions) ==
    IF num_cols = 0 THEN [ok |-> TRUE, val |-> descriptions]
    ELSE IF position + 1 > Len(f) THEN UnexpectedEof
    ELSE LET name_length == f[position + 1]
             described == position + 1 + name_length + 1
         IN  IF described > Len(f) THEN UnexpectedEof
             ELSE IF f[described] \notin {0, 1} THEN InvalidData
             ELSE IF described + (IF f[described] = 0 THEN 16 ELSE 24) > Len(f)
             THEN UnexpectedEof
             ELSE ReadDescriptions(f,
                      described + (IF f[described] = 0 THEN 16 ELSE 24),
                      num_cols - 1,
                      Append(descriptions,
                          [name |-> from_utf8(SubSeq(f, position + 2, described - 1)),
                           col_type |-> IF f[described] = 0 THEN "INT64" ELSE "STR",
                           offset |-> u64_from_le_bytes(SubSeq(f, described + 1, described + 8)),
                           length |-> u64_from_le_bytes(SubSeq(f, described + 9, described + 16)),
                           length2 |-> IF f[described] = 0 THEN 0
                                       ELSE u64_from_le_bytes(
                                                SubSeq(f, described + 17, described + 24))]))

\* Vec::resize
resize(values, new_len, value) ==
    IF Len(values) >= new_len THEN SubSeq(values, 1, new_len)
    ELSE values \o [k \in 1..(new_len - Len(values)) |-> value]

\* the loop of deserialize over the descriptions
RECURSIVE ReadColumns(_, _, _, _, _)
ReadColumns(f, descriptions, num_rows, columns, serializer) ==
    IF descriptions = << >>
    THEN [ok |-> TRUE, val |-> [num_rows |-> num_rows, columns |-> columns]]
    ELSE LET desc == Head(descriptions)
             buf == SubSeq(f, desc.offset + 1, desc.offset + desc.length)
             buf2 == SubSeq(f, desc.offset + desc.length + 1,
                            desc.offset + desc.length + desc.length2)
         IN  IF desc.length > 0 /\ desc.offset + desc.length > Len(f) THEN UnexpectedEof
             ELSE IF desc.col_type = "INT64"
             THEN LET int_data ==
                          IntDecompress(serializer.int_compressor, buf,
                                        serializer.overflow_checks)
                  IN  IF ~int_data.ok THEN int_data
                      ELSE ReadColumns(f, Tail(descriptions), num_rows,
                               Append(columns,
                                      [name |-> desc.name, col_type |-> desc.col_type,
                                       int_data |-> Some(resize(int_data.val, num_rows, I64(0))),
                                       str_data |-> None]),
                               serializer)
             ELSE IF desc.length2 > 0 /\ desc.offset + desc.length + desc.length2 > Len(f)
             THEN UnexpectedEof
             ELSE LET lengths_data ==
                          IntDecompress(serializer.int_compressor, buf2,
                                        serializer.overflow_checks)
                      str_data ==
                          StringDecompress(serializer.string_compressor,
                                           [data |-> buf, lengths |-> lengths_data.val])
                  IN  IF ~lengths_data.ok THEN lengths_data
                      ELSE IF ~str_data.ok THEN str_data
                      ELSE ReadColumns(f, Tail(descriptions), num_rows,
                               Append(columns,
                                      [name |-> desc.name, col_type |-> desc.col_type,
                                       int_data |-> None,
                                       str_data |-> Some(resize(str_data.val, num_rows, << >>))]),
                               serializer)

Described(f, descriptions, serializer) ==
    IF ~descriptions.ok THEN descriptions
    ELSE ReadColumns(f, descriptions.val, u64_from_le_bytes(SubSeq(f, 8, 15)), << >>,
                     serializer)

\* Serializer::deserialize: the table read, or the error
deserialize(serializer, f) ==
    IF Len(f) < 4 THEN UnexpectedEof
    ELSE IF SubSeq(f, 1, 4) # MAGIC THEN InvalidData
    ELSE IF Len(f) < 15 THEN UnexpectedEof
    ELSE Described(f, ReadDescriptions(f, 15, f[6] + 256 * f[7], << >>), serializer)

(***************************************************************************)
(* An integer column through a codec: compress, then decompress.            *)
(***************************************************************************)
MaxValues == 2

IntSamples ==
    {I64(0), I64(1), I64(-1), I64(-2), I64(63), I64(64), I64(-65), I64(300),
     I64_MAX, I64_MIN}

IntColumns == UNION {[1..n -> IntSamples] : n \in 0..MaxValues}

InitCodec ==
    /\ tables = << >>
    /\ tables_name_id = << >>
    /\ scheduled_for_deletion = {}
    /\ table_accesses = << >>
    /\ queries = << >>
    /\ query_queue = << >>
    /\ dispatcher = None
    /\ pc = [q \in QueryIds |-> "none"]
    /\ plan = [q \in QueryIds |-> None]
    /\ local = [q \in QueryIds |-> NoLocal]
    /\ last = NoCall
    /\ hist = [q \in QueryIds |-> NoHist]
    /\ max_concurrent = MAX_QUERY_WORKERS
    /\ \E data \in IntColumns, int_compressor \in {"VleDelta", "None"},
          overflow_checks \in BOOLEAN :
            isdb = [stage |-> "values", int_compressor |-> int_compressor,
                    overflow_checks |-> overflow_checks, data |-> data]

Compress ==
    /\ isdb.stage = "values"
    /\ LET compressed == IntCompress(isdb.int_compressor, isdb.data, isdb.overflow_checks)
       IN  isdb' = IF compressed.ok
                   THEN [stage |-> "compressed", int_compressor |-> isdb.int_compressor,
                         overflow_checks |-> isdb.overflow_checks, data |-> isdb.data,
                         compressed |-> compressed.val]
                   ELSE [stage |-> "panicked", int_compressor |-> isdb.int_compressor,
                         overflow_checks |-> isdb.overflow_checks, data |-> isdb.data]
    /\ UNCHANGED <<catalog, engine, last, max_concurrent, hist>>

Decompress ==
    /\ isdb.stage = "compressed"
    /\ LET decompressed ==
               IntDecompress(isdb.int_compressor, isdb.compressed, isdb.overflow_checks)
       IN  isdb' = IF "panic" \in DOMAIN decompressed
                   THEN [stage |-> "panicked", int_compressor |-> isdb.int_compressor,
                         overflow_checks |-> isdb.overflow_checks, data |-> isdb.data]
                   ELSE [stage |-> "decompressed", int_compressor |-> isdb.int_compressor,
                         overflow_checks |-> isdb.overflow_checks, data |-> isdb.data,
                         compressed |-> isdb.compressed, decompressed |-> decompressed]
    /\ UNCHANGED <<catalog, engine, last, max_concurrent, hist>>

CodecNext ==
    \/ Compress
    \/ Decompress

SpecCodec == InitCodec /\ [][CodecNext]_vars

(***************************************************************************)
(* A table through the serializer: serialize, then deserialize the file, or  *)
(* a file in which one byte was replaced after it was written.               *)
(***************************************************************************)
MaxFileRows == 2
MaxFileColumns == 2

FileInts == {I64(300), I64_MIN}
FileStrings == {<< >>, <<"p", "q">>}
FileNames == {<<"a">>, <<"a", "b">>}

LegalColumns(num_rows) ==
    {new_int_col(name, int_data) :
        name \in FileNames, int_data \in [1..num_rows -> FileInts]}
    \cup {new_str_col(name, str_data) :
        name \in FileNames, str_data \in [1..num_rows -> FileStrings]}

LegalTables ==
    UNION {UNION {{[num_rows |-> num_rows, columns |-> columns] :
                      columns \in [1..num_cols -> LegalColumns(num_rows)]} :
                  num_cols \in 0..MaxFileColumns} :
           num_rows \in 0..MaxFileRows}

\* Serializer::new, Serializer::no_compression and Serializer::with_compressors
Serializers ==
    [int_compressor : {"VleDelta", "None"}, string_compressor : {"LZ4", "None"},
     overflow_checks : BOOLEAN]

InitSerializer ==
    /\ tables = << >>
    /\ tables_name_id = << >>
    /\ scheduled_for_deletion = {}
    /\ table_accesses = << >>
    /\ queries = << >>
    /\ query_queue = << >>
    /\ dispatcher = None
    /\ pc = [q \in QueryIds |-> "none"]
    /\ plan = [q \in QueryIds |-> None]
    /\ local = [q \in QueryIds |-> NoLocal]
    /\ last = NoCall
    /\ hist = [q \in QueryIds |-> NoHist]
    /\ max_concurrent = MAX_QUERY_WORKERS
    /\ \E table \in LegalTables, serializer \in Serializers :
            isdb = [stage |-> "table", serializer |-> serializer, table |-> table]

Serialize ==
    /\ isdb.stage = "table"
    /\ LET written == serialize(isdb.serializer, isdb.table)
       IN  isdb' = IF written.ok
                   THEN [stage |-> "file", serializer |-> isdb.serializer,
                         table |-> isdb.table, f |-> written.val, replaced |-> "nothing"]
                   ELSE [stage |-> "panicked", serializer |-> isdb.serializer,
                         table |-> isdb.table]
    /\ UNCHANGED <<catalog, engine, last, max_concurrent, hist>>

\* the position of the type byte of every column of a table in its file
TypeBytes(table) ==
    WriteHeaders(table.columns,
                 MAGIC \o <<VERSION>> \o u16_to_le_bytes(Len(table.columns))
                       \o u64_to_le_bytes(table.num_rows),
                 << >>).placeholders_offsets

\* another program replaces one byte of the file: one of the first four, one
\* of the last four, or the type byte of a column
Replace ==
    /\ isdb.stage = "file"
    /\ isdb.replaced = "nothing"
    /\ \/ \E position \in {1, 4} :
            isdb' = [isdb EXCEPT !.f = WriteAt(isdb.f, position - 1, <<0>>),
                                 !.replaced = "magic"]
       \/ \E position \in {Len(isdb.f) - 3, Len(isdb.f)} :
            isdb' = [isdb EXCEPT !.f = WriteAt(isdb.f, position - 1, <<0>>),
                                 !.replaced = "footer"]
       \/ \E k \in 1..Len(isdb.table.columns) :
            isdb' = [isdb EXCEPT !.f = WriteAt(isdb.f, TypeBytes(isdb.table)[k] - 1, <<2>>),
                                 !.replaced = "type"]
    /\ UNCHANGED <<catalog, engine, last, max_concurrent, hist>>

Deserialize ==
    /\ isdb.stage = "file"
    /\ LET read == deserialize(isdb.serializer, isdb.f)
       IN  isdb' = IF "panic" \in DOMAIN read
                   THEN [stage |-> "panicked", serializer |-> isdb.serializer,
                         table |-> isdb.table]
                   ELSE [stage |-> "read", serializer |-> isdb.serializer,
                         table |-> isdb.table, f |-> isdb.f, replaced |-> isdb.replaced,
                         read |-> read]
    /\ UNCHANGED <<catalog, engine, last, max_concurrent, hist>>

SerializerNext ==
    \/ Serialize
    \/ Replace
    \/ Deserialize

SpecSerializer == InitSerializer /\ [][SerializerNext]_vars

(***************************************************************************)
(* A table loaded from a CSV file (tests/utils/mod.rs) and written by a      *)
(* serializer.  The records of the file are as long as its header.           *)
(***************************************************************************)
MaxCsvRecords == 2
MaxCsvColumns == 2

\* the column of get_table_from_csv for one index of the header
CsvColumn(name, values) ==
    IF \A k \in 1..Len(values) : Trim(values[k]) = << >> \/ IsSome(ParseI64(values[k]))
    THEN new_int_col(name, [k \in 1..Len(values) |->
                               IF Trim(values[k]) = << >> THEN I64(0)
                               ELSE I64(Unwrap(ParseI64(values[k])))])
    ELSE new_str_col(name, values)

get_table_from_csv(headers, records) ==
    [num_rows |-> Len(records),
     columns |-> [col_idx \in 1..Len(headers) |->
                     CsvColumn(headers[col_idx],
                               [row \in 1..Len(records) |-> records[row][col_idx]])]]

CsvFields == {<< >>, <<"3">>, <<"-", "2", "0", "0">>, <<"p", "q">>}

CsvHeaders == {SubSeq(<<<<"a">>, <<"b">>>>, 1, num_cols) : num_cols \in 0..MaxCsvColumns}

CsvFiles ==
    UNION {UNION {{[headers |-> headers, records |-> records] :
                      records \in [1..num_rows -> [1..Len(headers) -> CsvFields]]} :
                  num_rows \in 0..MaxCsvRecords} :
           headers \in CsvHeaders}

InitCsv ==
    /\ tables = << >>
    /\ tables_name_id = << >>
    /\ scheduled_for_deletion = {}
    /\ table_accesses = << >>
    /\ queries = << >>
    /\ query_queue = << >>
    /\ dispatcher = None
    /\ pc = [q \in QueryIds |-> "none"]
    /\ plan = [q \in QueryIds |-> None]
    /\ local = [q \in QueryIds |-> NoLocal]
    /\ last = NoCall
    /\ hist = [q \in QueryIds |-> NoHist]
    /\ max_concurrent = MAX_QUERY_WORKERS
    /\ \E csv \in CsvFiles, serializer \in Serializers :
            isdb = [stage |-> "csv", serializer |-> serializer, csv |-> csv]

LoadCsv ==
    /\ isdb.stage = "csv"
    /\ isdb' = [stage |-> "table", serializer |-> isdb.serializer,
                table |-> get_table_from_csv(isdb.csv.headers, isdb.csv.records)]
    /\ UNCHANGED <<catalog, engine, last, max_concurrent, hist>>

CsvNext ==
    \/ LoadCsv
    \/ Serialize

SpecCsv == InitCsv /\ [][CsvNext]_vars

(***************************************************************************)
(* Properties.                                                             *)
(***************************************************************************)
StatusOf(q) == queries[q].status
Terminal(status) == status \in {"Completed", "Failed"}
LiveTables == DOMAIN tables \ scheduled_for_deletion
ReadersIn(accesses, table_id) ==
    IF table_id \in DOMAIN accesses THEN accesses[table_id] ELSE {}

\* The steps of the lifecycle: CREATED -> PLANNING -> RUNNING -> COMPLETED or
\* FAILED, PLANNING -> FAILED.
LifecycleStep(from, to) ==
    \/ from = to
    \/ from = "Created" /\ to = "Planning"
    \/ from = "Planning" /\ to \in {"Running", "Failed"}
    \/ from = "Running" /\ to \in {"Completed", "Failed"}

\* C1: a query is created CREATED, every change of its status is a step of
\* the lifecycle (so none goes back), and a COMPLETED or FAILED status never
\* changes again.
C1_StatusMonotonic ==
    [][/\ \A q \in DOMAIN queries :
             /\ q \in DOMAIN queries'
             /\ LifecycleStep(queries[q].status, queries'[q].status)
             /\ Terminal(queries[q].status) => queries'[q].status = queries[q].status
       /\ \A q \in DOMAIN queries' \ DOMAIN queries : queries'[q].status = "Created"]_vars

\* One query has run to COMPLETED and another has FAILED.
C1_Witness ==
    \E q, r \in DOMAIN queries : StatusOf(q) = "Completed" /\ StatusOf(r) = "Failed"

\* What a SELECT must return when it reads the table content `before`.
ExpectedRows(definition, before) ==
    IF definition.kind = "SelectAll"
    THEN <<[row_count |-> before.num_rows,
            columns |-> [i \in 1..Len(before.columns) |-> before.columns[i].data]]>>
    ELSE <<[row_count |-> before.num_rows,
            columns |-> [k \in 1..Len(definition.column_clauses) |->
                (CHOOSE c \in Range(before.columns) :
                    c.name = definition.column_clauses[k].column_name).data]]>>

\* C2: a completed SelectAll or Select that was created before a COPY appended
\* to its table, and whose result has not been flushed, returns exactly the
\* rows the table held before that append.
C2_ReadersSeePreCopyRows ==
    \A q \in DOMAIN queries :
        (/\ queries[q].definition.kind \in {"SelectAll", "Select"}
         /\ StatusOf(q) = "Completed"
         /\ IsSome(hist[q].before)
         /\ ~hist[q].flushed)
        => get_query_result(q, None)
               = Ok(ExpectedRows(queries[q].definition, Unwrap(hist[q].before)))

\* C3: every column of every table has exactly num_rows values.
C3_ColumnLengths ==
    \A id \in DOMAIN tables :
        \A i \in 1..Len(tables[id].table.columns) :
            Len(tables[id].table.columns[i].data) = tables[id].table.num_rows

\* C4: a query whose worker task has ended is COMPLETED or FAILED (no other
\* task ever writes a query's status, so a query left otherwise never
\* reaches either).
C4_EndedWorkerLeavesTerminal ==
    \A q \in DOMAIN queries :
        pc[q] \in {"done", "panicked"} => Terminal(StatusOf(q))

ResultTables(q) ==
    IF IsSome(queries[q].result)
    THEN {r.table_id : r \in Range(Unwrap(queries[q].result))} ELSE {}

\* C5: right after a successful get_query_result_flush(q), q reads none of its
\* result tables, and each of them that is scheduled for deletion and has no
\* reader left is gone from tables.
C5_FlushReleasesAndCollects ==
    (last.op = "get_query_result_flush" /\ last.ret.ok)
    => \A id \in ResultTables(last.arg.query_id) :
          /\ last.arg.query_id \notin Readers(id)
          /\ (id \in scheduled_for_deletion /\ Readers(id) = {}) => id \notin DOMAIN tables

\* The table name a submitted request gives, as an Option.
RequestedName(call) ==
    IF call.kind = "Copy" THEN Some(call.request.destination_table_name)
    ELSE call.request.table_name

\* C6: a query creation whose table name is bound to a table scheduled for
\* deletion is refused with QueryCreationError, inserts no query and changes
\* no reader set.
C6_CreationResolvesLiveOnly ==
    [][(/\ last'.op = "submit_query"
        /\ IsSome(RequestedName(last'.arg))
        /\ Unwrap(RequestedName(last'.arg)) \in DOMAIN tables_name_id
        /\ tables_name_id[Unwrap(RequestedName(last'.arg))] \in scheduled_for_deletion)
       => (/\ ~last'.ret.ok
           /\ last'.ret.err = "QueryCreationError"
           /\ queries' = queries
           /\ table_accesses' = table_accesses)]_vars

\* The requests a creation must refuse: no table name, a name bound to no
\* table, a COPY source file that does not exist.
MustBeRefused(call) ==
    \/ ~IsSome(RequestedName(call))
    \/ Unwrap(RequestedName(call)) \notin DOMAIN tables_name_id
    \/ call.kind = "Copy" /\ call.request.source_filepath \notin DOMAIN FileSystem

\* C7: a successful creation inserts one query with a fresh id, CREATED, with
\* no result and no errors, adds the id to the reader set of the table the
\* name is bound to, sends the id to the engine and changes nothing else; a
\* refused creation changes neither queries nor reader sets and sends nothing.
C7_CreationFrame ==
    [][last'.op = "submit_query" =>
        IF last'.ret.ok
        THEN LET id == last'.ret.val
                 target == tables_name_id[Unwrap(RequestedName(last'.arg))]
             IN  /\ ~MustBeRefused(last'.arg)
                 /\ id \notin DOMAIN queries
                 /\ DOMAIN queries' = DOMAIN queries \cup {id}
                 /\ \A q \in DOMAIN queries : queries'[q] = queries[q]
                 /\ queries'[id].status = "Created"
                 /\ queries'[id].result = None
                 /\ queries'[id].errors = None
                 /\ TargetOf(queries'[id].definition) = Some(target)
                 /\ ReadersIn(table_accesses', target)
                        = ReadersIn(table_accesses, target) \cup {id}
                 /\ \A t \in TableIds \ {target} :
                        ReadersIn(table_accesses', t) = ReadersIn(table_accesses, t)
                 /\ query_queue' = Append(query_queue, id)
                 /\ UNCHANGED <<tables, tables_name_id, scheduled_for_deletion>>
        ELSE /\ last'.ret.err = "QueryCreationError"
             /\ UNCHANGED <<catalog, query_queue>>]_vars

\* The second query has just been created on a table that another query reads.
C7_Witness ==
    /\ last.op = "submit_query"
    /\ last.ret.ok
    /\ last.ret.val = 2
    /\ \E t \in DOMAIN table_accesses : table_accesses[t] = {1, 2}

HoldersOf(name) == {id \in DOMAIN tables : tables[id].name = name}
HasRepeatedColumn(columns) ==
    \E i, j \in 1..Len(columns) : i # j /\ columns[i].name = columns[j].name

\* C8: no two live tables have the same name; create_table is refused when a
\* live table holds the name, and when no live table holds it (its holders,
\* if any, are soft-deleted tables or snapshots) and no column repeats it
\* succeeds and binds the name to the new id.
C8_LiveNamesUnique ==
    /\ [](\A a, b \in LiveTables : tables[a].name = tables[b].name => a = b)
    /\ [][last'.op = "create_table" =>
            IF HoldersOf(last'.arg.name) \cap LiveTables # {}
            THEN ~last'.ret.ok /\ last'.ret.err = "TableCreationError"
            ELSE ~HasRepeatedColumn(last'.arg.columns)
                 => /\ last'.ret.ok
                    /\ last'.ret.val \notin DOMAIN tables
                    /\ last'.ret.val \in DOMAIN tables' \ scheduled_for_deletion'
                    /\ tables_name_id'[last'.arg.name] = last'.ret.val]_vars

\* A table has just been created under a name that two tables scheduled for
\* deletion hold.
C8_Witness ==
    /\ last.op = "create_table"
    /\ last.ret.ok
    /\ Cardinality(HoldersOf(last.arg.name) \cap scheduled_for_deletion) = 2

\* C9: create_table of a schema that names a live table or repeats a column
\* name is refused and leaves tables, tables_name_id and
\* scheduled_for_deletion as they were; a table it inserts has pairwise
\* distinct column names, no rows, and one empty column per schema column in
\* schema order.
C9_CreateTableRejectsOrInsertsEmpty ==
    [][last'.op = "create_table" =>
        IF \/ HoldersOf(last'.arg.name) \cap LiveTables # {}
           \/ HasRepeatedColumn(last'.arg.columns)
        THEN /\ ~last'.ret.ok
             /\ last'.ret.err = "TableCreationError"
             /\ UNCHANGED <<tables, tables_name_id, scheduled_for_deletion>>
        ELSE /\ last'.ret.ok
             /\ LET table == tables'[last'.ret.val].table
                    columns == last'.arg.columns
                IN  /\ table.num_rows = 0
                    /\ Len(table.columns) = Len(columns)
                    /\ \A i \in 1..Len(columns) :
                          /\ table.columns[i].name = columns[i].name
                          /\ table.columns[i].data = << >>
                          /\ table.columns[i].type = "INT64" <=> columns[i].type = "INT64"
                    /\ ~HasRepeatedColumn(table.columns)
             /\ \A id \in DOMAIN tables : tables'[id] = tables[id]
             /\ scheduled_for_deletion' = scheduled_for_deletion]_vars

\* A create_table has just been refused for both reasons at once.
C9_Witness ==
    /\ last.op = "create_table"
    /\ ~last.ret.ok
    /\ Len(last.ret.errors) = 2

\* C10: a table scheduled for deletion stays scheduled, is never listed, is
\* refused by get_table and by a second delete_table, and keeps its entry in
\* tables; delete_table succeeds exactly on a table not yet scheduled, adds
\* it to scheduled_for_deletion and changes nothing else; on an unknown id it
\* is refused and changes nothing.
C10_SoftDelete ==
    /\ [](\A id \in scheduled_for_deletion :
            /\ id \in DOMAIN tables
            /\ id \notin {t.id : t \in get_shallow_tables}
            /\ ~get_table(id).ok /\ get_table(id).err = "TableAccessError"
            /\ ~delete_table(id).ok /\ delete_table(id).err = "TableDeletionError")
    /\ [][/\ scheduled_for_deletion \subseteq scheduled_for_deletion'
          /\ last'.op = "delete_table" =>
                IF last'.arg \in DOMAIN tables \ scheduled_for_deletion
                THEN /\ last'.ret.ok
                     /\ scheduled_for_deletion' = scheduled_for_deletion \cup {last'.arg}
                     /\ UNCHANGED <<tables, tables_name_id, table_accesses, queries>>
                ELSE /\ ~last'.ret.ok
                     /\ last'.ret.err = "TableDeletionError"
                     /\ UNCHANGED catalog]_vars

\* A table that a query still reads has just been deleted.
C10_Witness ==
    /\ last.op = "delete_table"
    /\ last.ret.ok
    /\ Readers(last.arg) # {}

\* The error messages of a worker that found its table gone.
TableGoneMessages ==
    {"Table was deleted before planning query", "Table {} not found during execution",
     "Table {} not found", "Table {} deleted during copy"}

\* C11: a table with a reader is in tables, scheduled for deletion or not;
\* the table every query names (in its definition, in the plan its worker
\* holds, in its result) is in tables, so that no worker ever fails because
\* its table is gone, and the result of every completed SELECT can be read.
C11_DeletedTableServesReaders ==
    /\ \A id \in TableIds : Readers(id) # {} => id \in DOMAIN tables
    /\ scheduled_for_deletion \subseteq DOMAIN tables
    /\ \A q \in DOMAIN queries :
          /\ IsSome(TargetOf(queries[q].definition))
                => IsSome(get_table_internal(Unwrap(TargetOf(queries[q].definition))))
          /\ (IsSome(plan[q]) /\ IsSome(TargetOf(Unwrap(plan[q]))))
                => IsSome(get_table_internal(Unwrap(TargetOf(Unwrap(plan[q])))))
          /\ IsSome(queries[q].errors)
                => \A i \in 1..Len(Unwrap(queries[q].errors)) :
                      Unwrap(queries[q].errors)[i].message[1] \notin TableGoneMessages
          /\ (StatusOf(q) = "Completed" /\ queries[q].definition.kind # "Copy")
                => get_query_result(q, None).ok

\* A SelectAll has completed on the table it was created on, that table has
\* been deleted since, and its result is read with the rows of the table.
C11_Witness ==
    \E q \in DOMAIN queries :
        /\ queries[q].definition.kind = "SelectAll"
        /\ StatusOf(q) = "Completed"
        /\ hist[q].target = Some(queries[q].definition.table_id)
        /\ queries[q].definition.table_id \in scheduled_for_deletion
        /\ get_query_result(q, None).ok
        /\ get_query_result(q, None).val[1].row_count > 0

\* The queries whose worker task has been launched and has not ended.
InFlight == {q \in QueryIds : pc[q] \notin {"none", "queued", "done", "panicked"}}

\* C12: at most max_concurrent queries are between the start of planning and
\* the end of execution; a query is PLANNING or RUNNING with a live worker
\* only while in that set; a worker is launched only when a permit is free,
\* and leaves the set only by ending.
C12_BoundedWorkers ==
    /\ [](/\ Cardinality(InFlight) <= max_concurrent
          /\ \A q \in DOMAIN queries :
                (StatusOf(q) = "Planning" /\ pc[q] # "panicked") => q \in InFlight)
    /\ [][/\ \A q \in InFlight' \ InFlight :
                /\ Cardinality(InFlight) < max_concurrent
                /\ dispatcher = Some(q)
          /\ \A q \in InFlight \ InFlight' : pc'[q] \in {"done", "panicked"}]_vars

\* One query is running and holds the only permit while the dispatcher waits
\* with the id of the next.
C12_Witness ==
    /\ max_concurrent = 1
    /\ IsSome(dispatcher)
    /\ \E q \in InFlight : StatusOf(q) = "Running" /\ q # Unwrap(dispatcher)

\* Query ids are allocated in the order of creation, which is the order in
\* which submit_query sends them: Sent(a, b) is "a was sent before b".
Sent(a, b) == a \in DOMAIN queries /\ b \in DOMAIN queries /\ a < b
Launched(q) == pc[q] \notin {"none", "queued"}
Planning(q) == pc[q] \in {"plan", "plan_lookup", "plan_fail"}

\* C13: of two queries the one sent first is launched first; with a single
\* permit the first has reached COMPLETED or FAILED before the second leaves
\* CREATED; within a query the planner has returned before the status is
\* RUNNING.
C13_SubmissionOrder ==
    /\ \A a, b \in QueryIds : (Sent(a, b) /\ Launched(b)) => Launched(a)
    /\ max_concurrent = 1
          => \A a, b \in QueryIds :
                (Sent(a, b) /\ StatusOf(b) # "Created") => Terminal(StatusOf(a))
    /\ \A q \in DOMAIN queries :
          /\ Planning(q) => StatusOf(q) \in {"Created", "Planning"}
          /\ StatusOf(q) = "Running" => ~Planning(q) /\ Launched(q)

\* The table as create_table left it: the same columns with no values.
Emptied(table) ==
    [num_rows |-> 0,
     columns |-> [i \in 1..Len(table.columns) |-> [table.columns[i] EXCEPT !.data = << >>]]]

\* The table after the COPY query q alone has appended its records to it.
AppendedBy(table, q) ==
    LET copy == queries[q].definition
        parsed == CopyParse([table_id |-> copy.table_id,
                             table_name |-> copy.table_name,
                             file_path |-> copy.source_filepath,
                             mapping |-> copy.destination_columns,
                             has_headers |-> copy.does_csv_contain_header])
    IN  AppendRows(table, parsed.val.shadow_columns, parsed.val.num_rows).table

\* C14: when two COPY queries created on the same table have both completed,
\* the table holds its original rows (none: the two are the only writers)
\* followed by the records of one COPY and then the records of the other.
C14_NoLostAppend ==
    \A a, b \in DOMAIN queries :
        (/\ a # b
         /\ queries[a].definition.kind = "Copy" /\ queries[b].definition.kind = "Copy"
         /\ StatusOf(a) = "Completed" /\ StatusOf(b) = "Completed"
         /\ hist[a].target = hist[b].target)
        => LET table == tables[Unwrap(hist[a].target)].table
           IN  \/ table = AppendedBy(AppendedBy(Emptied(table), a), b)
               \/ table = AppendedBy(AppendedBy(Emptied(table), b), a)

\* The values a COPY must append to the column `col`: for each record in
\* file order, the parsed field that the mapping (the table's own column
\* order when there is none) sends to the column.
IsAppendOf(copy_plan, table, col, appended) ==
    LET records == ReadCsv(copy_plan.file_path, copy_plan.has_headers).val
        names == IF IsSome(copy_plan.mapping) THEN Unwrap(copy_plan.mapping)
                 ELSE [i \in 1..Len(table.columns) |-> table.columns[i].name]
    IN  \E k \in 1..Len(names) :
           /\ names[k] = col.name
           /\ appended = [r \in 1..Len(records) |->
                             Unwrap(ParseField(col.type, records[r][k]))]

\* C15: the append of a COPY that succeeds adds the number of CSV records to
\* num_rows of its table and extends every column by the parsed values of
\* the records in file order, the values already there staying in front.
C15_CopyAppends ==
    [][\A q \in DOMAIN queries :
          (/\ pc[q] = "copy_append"
           /\ pc'[q] = "copy_release"
           /\ Unwrap(local'[q].result).ok)
          => LET copy_plan == Unwrap(plan[q])
                 old == tables[copy_plan.table_id].table
                 new == tables'[copy_plan.table_id].table
                 n == Len(ReadCsv(copy_plan.file_path, copy_plan.has_headers).val)
             IN  /\ new.num_rows = old.num_rows + n
                 /\ Len(new.columns) = Len(old.columns)
                 /\ \A i \in 1..Len(old.columns) :
                       /\ Len(new.columns[i].data) = Len(old.columns[i].data) + n
                       /\ SubSeq(new.columns[i].data, 1, Len(old.columns[i].data))
                              = old.columns[i].data
                       /\ IsAppendOf(copy_plan, old, old.columns[i],
                              SubSeq(new.columns[i].data, Len(old.columns[i].data) + 1,
                                     Len(new.columns[i].data)))]_vars

C17_SelectAllReadsTargetInPlace ==
    \A q \in DOMAIN queries :
        queries[q].definition.kind = "SelectAll"
        => /\ StatusOf(q) = "Completed"
                => queries[q].result = Some(<<[table_id |-> queries[q].definition.table_id]>>)
           /\ (StatusOf(q) # "Failed" /\ ~hist[q].flushed)
                => /\ q \in Readers(queries[q].definition.table_id)
                   /\ IsSome(queries[q].result)
                         => q \in Readers(Unwrap(queries[q].result)[1].table_id)

\* The row limits a result is asked with: none, negative, zero, and limits
\* below and above the number of rows a table can hold here.
RowLimitChoices == {None, Some(-1), Some(0), Some(1), Some(5)}

\* C18: whatever the row limit, each table of a query result is returned with
\* row_count = min(row_limit, num_rows), or num_rows when there is no limit,
\* and each of its columns is the first row_count values of the table's
\* column, exactly row_count of them.
C18_RowLimit ==
    \A q \in DOMAIN queries : \A row_limit \in RowLimitChoices :
        IsSome(queries[q].result)
        => LET ret == get_query_result(q, row_limit)
               result == Unwrap(queries[q].result)
           IN  /\ ret.ok
               /\ Len(ret.val) = Len(result)
               /\ \A i \in 1..Len(result) :
                     LET table == tables[result[i].table_id].table
                         row_count == IF IsSome(row_limit)
                                      THEN Min(Unwrap(row_limit), table.num_rows)
                                      ELSE table.num_rows
                     IN  /\ ret.val[i].row_count = row_count
                         /\ Len(ret.val[i].columns) = Len(table.columns)
                         /\ \A c \in 1..Len(table.columns) :
                               /\ Len(ret.val[i].columns[c]) = row_count
                               /\ \A r \in 1..Len(ret.val[i].columns[c]) :
                                     ret.val[i].columns[c][r] = table.columns[c].data[r]

\* The values of data at the positions where mask is true, in their order.
RECURSIVE KeepMasked(_, _)
KeepMasked(data, mask) ==
    IF data = << >> \/ mask = << >> THEN << >>
    ELSE (IF Head(mask) THEN <<Head(data)>> ELSE << >>)
         \o KeepMasked(Tail(data), Tail(mask))

TrueEntries(mask) == Cardinality({i \in 1..Len(mask) : mask[i]})

\* C19: when a worker is about to run a plan with a WHERE clause whose
\* expression evaluates to a boolean mask, the filter succeeds, every working
\* column becomes exactly its values at the true positions of the mask in
\* their original order, the row count becomes the number of true entries,
\* and every working column has that length; a result computed without ORDER
\* BY and LIMIT then holds those columns.
C19_FilterKeepsMaskedRows ==
    \A q \in DOMAIN queries :
        (/\ pc[q] \in {"select_read", "select_store"}
         /\ IsSome(Unwrap(plan[q]).table_id)
         /\ IsSome(Unwrap(plan[q]).filter_expression)) =>
            LET select_plan == Unwrap(plan[q])
                table == get_table_internal(Unwrap(select_plan.table_id))
                working_columns == WorkingColumns(select_plan, table)
                mask == evaluate_expression(Unwrap(select_plan.filter_expression),
                            select_plan.expressions_map, working_columns,
                            Unwrap(table).num_rows)
                filtered == FilterRows(select_plan, working_columns, Unwrap(table).num_rows)
            IN  (IsSome(table) /\ mask.ok /\ mask.val.type = "BOOL") =>
                    /\ filtered.ok
                    /\ filtered.val.current_row_count = TrueEntries(mask.val.data)
                    /\ \A n \in DOMAIN working_columns :
                          /\ Len(working_columns[n].data) = Len(mask.val.data)
                          /\ filtered.val.working_columns[n].data
                                = KeepMasked(working_columns[n].data, mask.val.data)
                          /\ Len(filtered.val.working_columns[n].data)
                                = filtered.val.current_row_count
                    /\ (/\ pc[q] = "select_store"
                        /\ select_plan.sorts = << >>
                        /\ select_plan.limit = None) =>
                           /\ Unwrap(local[q].data).row_count = TrueEntries(mask.val.data)
                           /\ \A k \in 1..Len(select_plan.column_expressions) :
                                 Unwrap(local[q].data).columns[k].data
                                    = KeepMasked(
                                        working_columns[select_plan.expressions_map[
                                            select_plan.column_expressions[k] + 1
                                        ].column_name].data,
                                        mask.val.data)

\* The projection columns of the rows the filter keeps, in table order.
FilteredColumns(q) ==
    LET select_plan == Unwrap(plan[q])
        table == get_table_internal(Unwrap(select_plan.table_id))
        working_columns == WorkingColumns(select_plan, table)
        column(k) == working_columns[select_plan.expressions_map[
                         select_plan.column_expressions[k] + 1].column_name]
    IN  [k \in 1..Len(select_plan.column_expressions) |->
            [type |-> column(k).type,
             data |-> IF IsSome(select_plan.filter_expression)
                      THEN KeepMasked(column(k).data,
                               evaluate_expression(Unwrap(select_plan.filter_expression),
                                   select_plan.expressions_map, working_columns,
                                   Unwrap(table).num_rows).val.data)
                      ELSE column(k).data]]

\* Row x comes before row y under the ORDER BY keys: at the first key on which
\* they differ x is smaller (larger for a descending key).
KeyBefore(x, y, sorts, columns) ==
    \E k \in 1..Len(sorts) :
        LET values(j) == columns[sorts[j].column_index + 1].data
            type(j) == columns[sorts[j].column_index + 1].type
        IN  /\ \A j \in 1..(k - 1) : values(j)[x] = values(j)[y]
            /\ IF sorts[k].asscending
               THEN CmpValue(type(k), values(k)[x], values(k)[y]) = -1
               ELSE CmpValue(type(k), values(k)[x], values(k)[y]) = 1

\* The position of row x in the stable sort: the rows before it under the
\* keys, and the earlier rows that tie with it.
StableRank(x, n, sorts, columns) ==
    Cardinality({y \in 1..n :
        \/ KeyBefore(y, x, sorts, columns)
        \/ (~KeyBefore(x, y, sorts, columns) /\ ~KeyBefore(y, x, sorts, columns) /\ y < x)})

\* C20: a Select result holds, in every projection column, the values of the
\* filtered rows in the order of their stable sort by the ORDER BY keys (each
\* key on its projection column, reversed when not ascending, ties broken by
\* the next key and then by original position), cut at the limit; with no
\* ORDER BY the original order is kept.
C20_StableSortByKeys ==
    \A q \in DOMAIN queries :
        (pc[q] = "select_store" /\ IsSome(Unwrap(plan[q]).table_id)) =>
            LET select_plan == Unwrap(plan[q])
                columns == FilteredColumns(q)
                n == Len(columns[1].data)
                result == Unwrap(local[q].data)
            IN  /\ result.row_count <= n
                /\ select_plan.limit = None => result.row_count = n
                /\ \A k \in 1..Len(columns) :
                      /\ Len(result.columns[k].data) = result.row_count
                      /\ result.row_count > 0 => \A x \in 1..n :
                            StableRank(x, n, select_plan.sorts, columns) < result.row_count =>
                                result.columns[k].data[
                                    StableRank(x, n, select_plan.sorts, columns) + 1]
                                  = columns[k].data[x]

\* A result sorted by the single key a where two rows tie on a, differ on b,
\* and the sort moved rows.
C20_Witness ==
    /\ pc[1] = "select_store"
    /\ Unwrap(plan[1]).sorts = <<OrderBy(0, TRUE)>>
    /\ Unwrap(plan[1]).limit = None
    /\ LET columns == FilteredColumns(1)
       IN  /\ \E x, y \in 1..Len(columns[1].data) :
                 /\ x < y
                 /\ columns[1].data[x] = columns[1].data[y]
                 /\ columns[2].data[x] # columns[2].data[y]
           /\ Unwrap(local[1].data).columns[1].data # columns[1].data

\* The rows of columns in the stable order of the keys: position p holds the
\* row of rank p - 1.
SortedColumn(data, n, sorts, columns) ==
    [p \in 1..n |-> data[CHOOSE x \in 1..n : StableRank(x, n, sorts, columns) = p - 1]]

\* C21: a Select with a non-negative limit L over k filtered rows computes a
\* result of exactly min(L, k) rows, the first min(L, k) of the sorted order,
\* with every projected column and the row count of that length; with no
\* limit all k rows are returned; the result table registered holds them.
C21_LimitKeepsFirstRows ==
    \A q \in DOMAIN queries :
        (/\ pc[q] \in {"select_store", "complete"}
         /\ queries[q].definition.kind = "Select"
         /\ IsSome(Unwrap(plan[q]).table_id)
         /\ queries[q].definition.limit = None \/ Unwrap(queries[q].definition.limit) >= 0) =>
            LET select_plan == Unwrap(plan[q])
                limit == queries[q].definition.limit
                columns == FilteredColumns(q)
                k == Len(columns[1].data)
                rows == IF IsSome(limit) THEN Min(Unwrap(limit), k) ELSE k
                result ==
                    IF pc[q] = "select_store" THEN Unwrap(local[q].data)
                    ELSE LET stored ==
                                 tables[Unwrap(Unwrap(local[q].result).val)[1].table_id].table
                         IN  [row_count |-> stored.num_rows, columns |-> stored.columns]
            IN  /\ result.row_count = rows
                /\ Len(result.columns) = Len(columns)
                /\ \A c \in 1..Len(columns) :
                      result.columns[c].data
                        = IF rows = 0 THEN << >>
                          ELSE SubSeq(SortedColumn(columns[c].data, k, select_plan.sorts,
                                                   columns), 1, rows)

\* A limit of 2 cut a sorted result of 3 filtered rows, and a limit of 0 left
\* an empty result table.
C21_Witness ==
    /\ 1 \in DOMAIN queries
    /\ queries[1].definition.kind = "Select"
    /\ \/ /\ pc[1] = "complete"
          /\ queries[1].definition.limit = Some(2)
          /\ Unwrap(plan[1]).sorts # << >>
          /\ Len(FilteredColumns(1)[1].data) = 3
          /\ tables[Unwrap(Unwrap(local[1].result).val)[1].table_id].table.num_rows = 2
       \/ /\ pc[1] = "select_store"
          /\ queries[1].definition.limit = Some(0)
          /\ Len(FilteredColumns(1)[1].data) = 3
          /\ Unwrap(local[1].data).row_count = 0

\* The value of a column expression on row i of a table, for an expression
\* that does not divide by zero there.
RECURSIVE RowValue(_, _, _)
RowValue(expr, table, i) ==
    CASE expr.kind = "Ref" ->
           table.columns[CHOOSE c \in 1..Len(table.columns) :
                             table.columns[c].name = expr.column_name].data[i]
      [] expr.kind = "Literal" -> expr.value
      [] expr.kind = "Binary" ->
           LET l == RowValue(expr.left_operand, table, i)
               r == RowValue(expr.right_operand, table, i)
           IN  CASE expr.operator = "Add" -> l + r
                 [] expr.operator = "Subtract" -> l - r
                 [] expr.operator = "Multiply" -> l * r
                 [] expr.operator = "Divide" -> Quotient(l, r)
                 [] expr.operator = "GreaterThan" -> l > r
                 [] expr.operator = "LessThan" -> l < r
                 [] expr.operator = "Equal" -> l = r

\* Evaluating the expression on row i meets a division whose divisor is 0.
RECURSIVE DividesByZeroAt(_, _, _)
DividesByZeroAt(expr, table, i) ==
    /\ expr.kind = "Binary"
    /\ \/ DividesByZeroAt(expr.left_operand, table, i)
       \/ DividesByZeroAt(expr.right_operand, table, i)
       \/ /\ expr.operator = "Divide"
          /\ RowValue(expr.right_operand, table, i) = 0

\* The evaluation of the Select divides by zero: in the WHERE clause on a row
\* of the table, or in a projection on a row the WHERE clause keeps.
DividesByZero(definition, table) ==
    LET where_fails ==
            /\ IsSome(definition.where_clause)
            /\ \E i \in 1..table.num_rows :
                  DividesByZeroAt(Unwrap(definition.where_clause), table, i)
        kept == IF IsSome(definition.where_clause)
                THEN {i \in 1..table.num_rows :
                         RowValue(Unwrap(definition.where_clause), table, i)}
                ELSE 1..table.num_rows
        filtered == \/ ~IsSome(definition.where_clause)
                    \/ \A c \in 1..Len(table.columns) :
                          Len(table.columns[c].data) = table.num_rows
    IN  \/ where_fails
        \/ /\ ~where_fails
           /\ filtered
           /\ \E k \in 1..Len(definition.column_clauses) : \E i \in kept :
                 DividesByZeroAt(definition.column_clauses[k], table, i)

\* C22: a Select whose evaluation divides by zero never computes a result;
\* its worker ends with the query FAILED, the error "Division by 0" recorded
\* and no result, no table is added, and the query has left the reader set of
\* its target table.
C22_DivisionByZeroFails ==
    \A q \in DOMAIN queries :
        (/\ queries[q].definition.kind = "Select"
         /\ IsSome(queries[q].definition.table_id)
         /\ DividesByZero(queries[q].definition,
                          tables[Unwrap(queries[q].definition.table_id)].table)) =>
            /\ pc[q] \notin {"select_store", "complete", "panicked"}
            /\ StatusOf(q) # "Completed"
            /\ DOMAIN tables = {Unwrap(queries[q].definition.table_id)}
            /\ pc[q] = "fail" => Unwrap(local[q].result).message = <<"Division by 0">>
            /\ pc[q] = "done" =>
                  /\ StatusOf(q) = "Failed"
                  /\ queries[q].errors = Some(<<QueryError(<<"Division by 0">>)>>)
                  /\ queries[q].result = None
                  /\ q \notin Readers(Unwrap(queries[q].definition.table_id))

\* A worker has ended a Select FAILED: from a projection over a table holding
\* a = 1 and a = 2 with LIMIT 0, or from the WHERE clause.
C22_Witness ==
    /\ pc[1] = "done"
    /\ StatusOf(1) = "Failed"
    /\ DividesByZero(queries[1].definition, tables[1].table)
    /\ \/ /\ queries[1].definition.where_clause = None
          /\ queries[1].definition.limit = Some(0)
          /\ \E i, j \in 1..tables[1].table.num_rows :
                tables[1].table.columns[1].data[i] = 1 /\ tables[1].table.columns[1].data[j] = 2
       \/ /\ IsSome(queries[1].definition.where_clause)
          /\ DividesByZeroAt(Unwrap(queries[1].definition.where_clause), tables[1].table, 1)

\* C23: a column of i64 values that goes through compress and then
\* decompress of either integer codec comes back equal, and neither step
\* panics, whatever the values are.
C23_IntCodecRoundTrip ==
    /\ isdb.stage # "panicked"
    /\ isdb.stage = "decompressed" =>
          /\ isdb.decompressed.ok
          /\ isdb.decompressed.val = isdb.data

\* C24: a legal table (every column num_rows long, names of at most 255
\* bytes, INT64 and STRING columns in any order) that is serialized and then
\* deserialized by the same serializer comes back equal, under every pair
\* of codecs, and serialize does not panic.
C24_SerializerRoundTrip ==
    /\ isdb.stage # "panicked"
    /\ isdb.stage = "read" /\ isdb.replaced = "nothing" =>
          /\ isdb.read.ok
          /\ isdb.read.val = isdb.table

\* C25: deserialize returns an error and no table for every file whose first
\* four bytes are not ISBD, whose last four bytes are not ENDC, or that has
\* a type byte other than 0 and 1.
C25_MalformedFileRejected ==
    /\ isdb.stage = "read"
    /\ \/ SubSeq(isdb.f, 1, 4) # MAGIC
       \/ SubSeq(isdb.f, Len(isdb.f) - 3, Len(isdb.f)) # FOOTER
       \/ \E k \in 1..Len(isdb.table.columns) :
              isdb.f[TypeBytes(isdb.table)[k]] \notin {0, 1}
    => ~isdb.read.ok

\* the size of the file a serializer writes for a table
FileSize(int_compressor, string_compressor, table) ==
    Len(serialize([int_compressor |-> int_compressor,
                   string_compressor |-> string_compressor,
                   overflow_checks |-> FALSE], table).val)

StringColumns(table) == {k \in 1..Len(table.columns) : table.columns[k].col_type = "STR"}

ResultEntries(query) == IF IsSome(query.result) THEN Unwrap(query.result) ELSE << >>

\* a reader's references to table_id have all become references to snapshot_id
Redirected(before, after, table_id, snapshot_id) ==
    /\ TargetOf(before.definition) = Some(table_id)
          => TargetOf(after.definition) = Some(snapshot_id)
    /\ TargetOf(before.definition) # Some(table_id)
          => after.definition = before.definition
    /\ Len(ResultEntries(after)) = Len(ResultEntries(before))
    /\ \A i \in 1..Len(ResultEntries(before)) :
          ResultEntries(after)[i].table_id =
              IF ResultEntries(before)[i].table_id = table_id THEN snapshot_id
              ELSE ResultEntries(before)[i].table_id

SnapshotStepOf(q) == pc[q] = "copy_snapshot" /\ pc'[q] # "copy_snapshot"

\* C27: when a COPY on T takes its snapshot step and the set R of the other
\* readers of T is not empty, then right after the step exactly one new
\* table T' exists, with the columns and num_rows T has at that moment, T'
\* is scheduled for deletion, every r in R names T' where its definition or
\* a result entry named T, table_accesses[T'] = R and no r in R is left in
\* table_accesses[T]; when R is empty no table is created and no query is
\* rewritten.
C27_SnapshotStep ==
    [][\A q \in QueryIds :
          SnapshotStepOf(q) =>
              LET T == Unwrap(plan[q]).table_id
                  R == ReadersIn(table_accesses, T) \ {q}
              IN  IF R = {}
                  THEN /\ tables' = tables
                       /\ queries' = queries
                       /\ table_accesses' = table_accesses
                       /\ scheduled_for_deletion' = scheduled_for_deletion
                  ELSE /\ Cardinality(DOMAIN tables' \ DOMAIN tables) = 1
                       /\ DOMAIN tables \subseteq DOMAIN tables'
                       /\ \A id \in DOMAIN tables : tables'[id] = tables[id]
                       /\ \A snapshot_id \in DOMAIN tables' \ DOMAIN tables :
                             /\ tables'[snapshot_id].table = tables[T].table
                             /\ snapshot_id \in scheduled_for_deletion'
                             /\ ReadersIn(table_accesses', snapshot_id) = R
                             /\ \A r \in R :
                                   Redirected(queries[r], queries'[r], T, snapshot_id)
                       /\ \A r \in R : r \notin ReadersIn(table_accesses', T)
                       /\ \A id \in DOMAIN queries :
                             id \notin R => queries'[id] = queries[id]]_vars

\* a COPY has just moved the other reader of its target to a snapshot
C27_Witness ==
    \E q \in QueryIds :
        /\ pc[q] = "copy_append"
        /\ \E snapshot_id \in DOMAIN tables :
              /\ snapshot_id \in scheduled_for_deletion
              /\ tables[snapshot_id].name = Unwrap(plan[q]).table_name
              /\ snapshot_id # Unwrap(plan[q]).table_id
              /\ ReadersIn(table_accesses, snapshot_id) # {}
              /\ \A r \in ReadersIn(table_accesses, snapshot_id) :
                    TargetOf(queries[r].definition) = Some(snapshot_id)

\* C28: the snapshot step of a COPY and its append happen within one holding
\* of the write lock: while a COPY is between the two, no step of another
\* task (a query created, a query completed, a result read or flushed)
\* changes the catalog.
C28_SnapshotAndAppendAtomic ==
    [][\A q \in QueryIds :
          pc[q] = "copy_append" /\ pc'[q] = "copy_append" => UNCHANGED catalog]_vars

\* no request is being handled (every step of the model is one whole hold of
\* the lock) and no worker is in the middle of a query
Quiescent ==
    /\ query_queue = << >>
    /\ dispatcher = None
    /\ \A q \in QueryIds : pc[q] \in {"none", "done"}

\* C29: in every state in which no catalog operation is in progress, no table
\* that is scheduled for deletion and has an empty or absent reader set is
\* still an entry of tables, be it a soft-deleted user table, the result
\* table of a SELECT or the snapshot of a COPY.
C29_UnreadTombstonesCollected ==
    Quiescent =>
        \A id \in scheduled_for_deletion :
            ReadersIn(table_accesses, id) = {} => id \notin DOMAIN tables

\* C30: in every reachable state, every query q in table_accesses[T] exists
\* in queries, and its definition names T as its table or one of its result
\* entries has table id T.
C30_ReadersReferenceTheirTable ==
    \A T \in DOMAIN table_accesses :
        \A q \in table_accesses[T] :
            /\ q \in DOMAIN queries
            /\ \/ TargetOf(queries[q].definition) = Some(T)
               \/ \E i \in 1..Len(ResultEntries(queries[q])) :
                      ResultEntries(queries[q])[i].table_id = T

\* the table the definition of a query names now, if any, holds the query
HoldsTarget(qs, accesses, q) ==
    /\ IsSome(TargetOf(qs[q].definition))
    /\ q \in ReadersIn(accesses, Unwrap(TargetOf(qs[q].definition)))

\* C31: the step that sets a running query FAILED also removes its id from
\* the reader set of the table its definition names at that moment (the
\* snapshot, if a COPY redirected it), and no later step puts it back: an
\* observer never sees an execution-failed query holding its target.
C31_FailureReleasesTarget ==
    [][\A q \in DOMAIN queries :
          /\ StatusOf(q) = "Running" /\ queries'[q].status = "Failed"
                => ~HoldsTarget(queries', table_accesses', q)
          /\ (StatusOf(q) = "Failed" /\ ~HoldsTarget(queries, table_accesses, q))
                => ~HoldsTarget(queries', table_accesses', q)]_vars

\* a query that failed in execution after a COPY moved it to a snapshot
C31_Witness ==
    \E q \in DOMAIN queries :
        /\ StatusOf(q) = "Failed"
        /\ pc[q] = "done"
        /\ hist[q].target # TargetOf(queries[q].definition)
        /\ IsSome(TargetOf(queries[q].definition))
        /\ Unwrap(TargetOf(queries[q].definition)) \in DOMAIN table_accesses
        /\ ~HoldsTarget(queries, table_accesses, q)

\* the result tables of a SELECT: the one its worker has just registered and
\* those its result names
ResultTablesOf(q) ==
    IF queries[q].definition.kind # "Select" THEN {}
    ELSE {ResultEntries(queries[q])[i].table_id : i \in 1..Len(ResultEntries(queries[q]))}
         \cup (IF pc[q] = "complete"
               THEN {r.table_id : r \in Range(Unwrap(Unwrap(local[q].result).val))}
               ELSE {})

\* C32: every SELECT result table is scheduled for deletion in every state
\* in which it is in tables, so the table listing never returns it, and from
\* its creation until the result of its owning query is flushed its reader
\* set is exactly the owning query.
C32_ResultTableTombstonedAndOwned ==
    \A q \in DOMAIN queries :
        \A id \in ResultTablesOf(q) :
            /\ id \in DOMAIN tables
            /\ id \in scheduled_for_deletion
            /\ \A listed \in get_shallow_tables : listed.id # id
            /\ ~hist[q].flushed => ReadersIn(table_accesses, id) = {q}

\* a completed SELECT whose result table is still held by it alone while the
\* other query runs
C32_Witness ==
    \E q \in DOMAIN queries :
        /\ StatusOf(q) = "Completed"
        /\ ResultTablesOf(q) # {}
        /\ ~hist[q].flushed
        /\ \A id \in ResultTablesOf(q) : ReadersIn(table_accesses, id) = {q}
        /\ \E other \in DOMAIN queries : other # q /\ StatusOf(other) = "Running"

\* the two columns of a planned SELECT of a op b and b op a: the node ids,
\* the nodes, and the ids of the operands a and b in the plan
FirstClause == queries[1].definition.column_clauses[1]
NodeId(k) == Unwrap(plan[1]).column_expressions[k]
Node(k) == Unwrap(plan[1]).expressions_map[NodeId(k) + 1]
OperandId(expr) == flatten_expression(expr, Unwrap(plan[1]).expressions_map).id
\* the operators the canonical form is promised for: +, *, AND, OR, =, !=
CommutativeOperators == {"Add", "Multiply", "And", "Or", "Equal", "NotEqual"}

BothOrdersPlanned ==
    /\ IsSome(plan[1])
    /\ Unwrap(plan[1]).kind = "Select"
    /\ Len(queries[1].definition.column_clauses) = 2
    /\ FirstClause.kind = "Binary"

\* C33: for a commutative operator, a op b and b op a flattened into one
\* plan get the same node id and the node is stored with left id >= right
\* id; for a non-commutative operator and distinct a and b they get
\* different ids and each keeps its operand order.
C33_CommutativeCanonised ==
    BothOrdersPlanned =>
        IF FirstClause.operator \in CommutativeOperators
        THEN /\ NodeId(1) = NodeId(2)
             /\ Node(1).left >= Node(1).right
        ELSE FirstClause.left_operand # FirstClause.right_operand
             => /\ NodeId(1) # NodeId(2)
                /\ Node(1).left = OperandId(FirstClause.left_operand)
                /\ Node(1).right = OperandId(FirstClause.right_operand)
                /\ Node(2).left = OperandId(FirstClause.right_operand)
                /\ Node(2).right = OperandId(FirstClause.left_operand)

\* C33 as the code has it: as above, but for a non-commutative operator the
\* two orders get different ids when a and b flatten to different node ids;
\* operands that are distinct expressions with one node (x + y and y + x)
\* give a op b and b op a the same node.
C33_Amended ==
    BothOrdersPlanned =>
        /\ FirstClause.operator \in CommutativeOperators
              => /\ NodeId(1) = NodeId(2)
                 /\ Node(1).left >= Node(1).right
        /\ FirstClause.operator \notin CommutativeOperators
              => /\ Node(1).left = OperandId(FirstClause.left_operand)
                 /\ Node(1).right = OperandId(FirstClause.right_operand)
                 /\ Node(2).left = OperandId(FirstClause.right_operand)
                 /\ Node(2).right = OperandId(FirstClause.left_operand)
                 /\ (NodeId(1) # NodeId(2))
                        = (OperandId(FirstClause.left_operand)
                              # OperandId(FirstClause.right_operand))

\* a + 1 and 1 + a subtracted from each other, planned into one node
C33_Witness ==
    /\ BothOrdersPlanned
    /\ FirstClause.operator = "Subtract"
    /\ FirstClause.left_operand # FirstClause.right_operand
    /\ NodeId(1) = NodeId(2)

\* The type of an expression under the typing rules, "none" when a rule is
\* broken: a column has the type of the table's column of that name.
RECURSIVE TypeOf(_)
TypeOf(expr) ==
    CASE expr.kind = "Ref" ->
           LET named == {i \in 1..Len(tables[1].table.columns) :
                            tables[1].table.columns[i].name = expr.column_name}
           IN  IF named = {} THEN "none"
               ELSE tables[1].table.columns[CHOOSE i \in named : TRUE].type
      [] expr.kind = "Literal" -> expr.type
      [] expr.kind = "Binary" ->
           LET l == TypeOf(expr.left_operand)
               r == TypeOf(expr.right_operand)
           IN  IF expr.operator \in ArithmeticOperators
               THEN (IF l = "INT64" /\ r = "INT64" THEN "INT64" ELSE "none")
               ELSE IF expr.operator \in ConnectiveOperators
               THEN (IF l = "BOOL" /\ r = "BOOL" THEN "BOOL" ELSE "none")
               ELSE (IF l = r /\ l # "none" THEN "BOOL" ELSE "none")
      [] expr.kind = "Unary" ->
           LET t == TypeOf(expr.operand)
           IN  IF expr.operator = "Not"
               THEN (IF t = "BOOL" THEN "BOOL" ELSE "none")
               ELSE (IF t = "INT64" THEN "INT64" ELSE "none")
      [] expr.kind = "Function" ->
           LET declared == IF expr.name = "Concat" THEN 2 ELSE 1
           IN  IF /\ Len(expr.arguments) = declared
                  /\ \A i \in 1..declared : TypeOf(expr.arguments[i]) = "STR"
               THEN (IF expr.name = "Strlen" THEN "INT64" ELSE "STR")
               ELSE "none"

WellTyped(select) ==
    /\ \A i \in 1..Len(select.column_clauses) : TypeOf(select.column_clauses[i]) # "none"
    /\ IsSome(select.where_clause) => TypeOf(Unwrap(select.where_clause)) = "BOOL"

TypeMismatchErrors ==
    {<<"Missmatched operation types">>, <<"Mismatched operation type">>,
     <<"Forbidden operation on integers">>, <<"Forbidden operation on strings">>,
     <<"Forbidden operation on booleans">>, <<"Concat requires (String, String)">>,
     <<"Strln requires (String)">>, <<"Upper requires (String)">>,
     <<"Lower requires (String)">>, <<"Wrong number of arguments">>}

\* C34: planning a Select on a live table, with no ORDER BY, is refused when
\* some expression breaks a typing rule or the WHERE expression is not a
\* bool, and accepted otherwise; the executor reports no type mismatch on an
\* accepted plan.
C34_PlannerAcceptsWellTyped ==
    /\ pc[1] = "plan_fail" => ~WellTyped(queries[1].definition)
    /\ pc[1] \notin {"plan_lookup", "plan_fail"} => WellTyped(queries[1].definition)
    /\ pc[1] = "fail" => Unwrap(local[1].result).message \notin TypeMismatchErrors

\* -STRLEN(b) was planned, evaluated and stored.
C34_Witness ==
    /\ pc[1] = "complete"
    /\ queries[1].definition.column_clauses =
           <<UnaryOperation("Minus", FunctionCall("Strlen", <<Ref("b")>>))>>
    /\ tables[1].table.num_rows = 2
    /\ \E id \in DOMAIN tables :
          /\ id # 1
          /\ tables[id].table.columns[1].data = <<-1, -1>>

\* C35: the submit handler, the dispatcher and the workers never all wait on
\* each other: never is a submit_query suspended on the full channel with the
\* write lock held while the dispatcher waits for a permit and every worker
\* that holds a permit waits for the lock.
C35_NoSubmitDeadlock ==
    ~ /\ SendBlocked
      /\ Len(query_queue) = CHANNEL_CAPACITY
      /\ IsSome(dispatcher)
      /\ PermitsInUse = max_concurrent
      /\ \A q \in DOMAIN pc : HoldsPermit(q) => pc[q] \in {"plan", "planned", "complete"}
      /\ ~ENABLED ChannelNext

\* C36: a query whose status is Failed, from planning or from execution, is
\* in the reader set of no table.
C36_FailedQueryReadsNothing ==
    \A q \in DOMAIN queries :
        StatusOf(q) = "Failed" => \A id \in DOMAIN table_accesses : q \notin table_accesses[id]

\* The tables a query is a reader of, other than the tables of its result.
HeldBeyondResult(q) ==
    {id \in DOMAIN table_accesses : q \in table_accesses[id]} \ ResultTablesOf(q)

\* C37: a Select or COPY that has reached Completed is a reader of no table
\* but its own result table, also when a COPY redirected it to a snapshot
\* between its planning and its completion.
C37_CompletedReleasesSource ==
    \A q \in DOMAIN queries :
        (StatusOf(q) = "Completed" /\ queries[q].definition.kind \in {"Select", "Copy"})
            => HeldBeyondResult(q) = {}

\* C38: a COPY that ends Failed has written nothing: its own steps created no
\* snapshot, rewrote no other query and appended to no table.
C38_FailedCopyWroteNothing ==
    \A q \in DOMAIN queries :
        (queries[q].definition.kind = "Copy" /\ StatusOf(q) = "Failed") => ~hist[q].wrote

\* A COPY into a table that another query reads failed in execution: the
\* table is as created, there is no snapshot and the reader still names it.
C38_Witness ==
    \E q \in DOMAIN queries, reader \in DOMAIN queries :
        /\ queries[q].definition.kind = "Copy"
        /\ StatusOf(q) = "Failed"
        /\ queries[q].errors[1][1].message[1]
              = "Mapping references column '{}', which does not exist in table"
        /\ reader # q
        /\ queries[reader].definition.kind = "Select"
        /\ hist[reader].target = Some(1)
        /\ TargetOf(queries[reader].definition) = Some(1)
        /\ reader \in Readers(1)
        /\ DOMAIN tables = {1}
        /\ tables[1].table.num_rows = 0

\* C39: a query has errors exactly when its status is Failed and has a result
\* only when its status is Completed; a completed COPY has no result, so
\* get_query_result on it is a QueryResultAccessError, and get_query_error on
\* a query that has not failed is a QueryErrorAccessError.
C39_ErrorsAndResultFollowStatus ==
    \A q \in DOMAIN queries :
        /\ IsSome(queries[q].errors) <=> StatusOf(q) = "Failed"
        /\ IsSome(queries[q].result) => StatusOf(q) = "Completed"
        /\ (StatusOf(q) = "Completed" /\ queries[q].definition.kind = "Copy")
              => /\ ~IsSome(queries[q].result)
                 /\ get_query_result(q, None)
                       = Err("QueryResultAccessError",
                             <<Error("Result for this query is not available")>>)
        /\ StatusOf(q) # "Failed"
              => get_query_error(q)
                    = Err("QueryErrorAccessError",
                          <<Error("Error for this query is not available")>>)
        /\ StatusOf(q) = "Failed" => get_query_error(q).ok

\* A completed COPY beside a query that failed.
C39_Witness ==
    \E q \in DOMAIN queries, failed \in DOMAIN queries :
        /\ queries[q].definition.kind = "Copy"
        /\ StatusOf(q) = "Completed"
        /\ StatusOf(failed) = "Failed"
        /\ get_query_error(failed).ok

\* C40: every table id in a query's result list is a key of tables, so
\* get_query_result and get_query_result_flush never look up a missing table,
\* also after a flush and after the table was scheduled for deletion.
C40_ResultTablesExist ==
    /\ \A q \in DOMAIN queries :
          /\ \A i \in 1..Len(ResultEntries(queries[q])) :
                ResultEntries(queries[q])[i].table_id \in DOMAIN tables
          /\ get_query_result(q, None) # Err("panic", << >>)
    /\ last.op = "get_query_result_flush" => last.ret # Err("panic", << >>)

\* The result of a flushed SELECT * is read again after its table was
\* scheduled for deletion.
C40_Witness ==
    \E q \in DOMAIN queries :
        /\ queries[q].definition.kind = "SelectAll"
        /\ StatusOf(q) = "Completed"
        /\ hist[q].flushed
        /\ \A i \in 1..Len(ResultEntries(queries[q])) :
              ResultEntries(queries[q])[i].table_id \in scheduled_for_deletion
        /\ last = Call("get_query_result_flush", [query_id |-> q, row_limit |-> None],
                       get_query_result(q, None))
        /\ last.ret.ok
        /\ q \notin Readers(ResultEntries(queries[q])[1].table_id)

====
